---- MODULE Spec2Model ----
(***************************************************************************)
(* Feed-to-channel pipeline of irc-rss-feed-bot.                           *)
(*                                                                         *)
(* Threads: one channel messenger (Bot._msg_channel) per channel, one feed *)
(* reader (Bot._read_feed) per (channel, feed), the IRC event handlers     *)
(* (_handle_join, _handle_privmsg), and a discrete monotonic clock.        *)
(* Every action is one atomic step of one thread; a thread's position is   *)
(* its pc.  Blocking calls (Event.wait, Queue.get, Lock.acquire,           *)
(* time.sleep, Barrier.wait) are guards.                                   *)
(***************************************************************************)
EXTENDS Integers, Sequences, FiniteSets, TLC

(***************************************************************************)
(* Bounds of the model: the polls of each reader, and the failures (of a   *)
(* poll, the shortener, a send, the database) and inbound messages of a    *)
(* run.                                                                    *)
(***************************************************************************)
MaxPolls == 2
MaxEvents == 1
MaxPollsFull == 3

(***************************************************************************)
(* Configuration (config.INSTANCE and the constants of config).  Times are *)
(* in ticks of the model's clock.                                          *)
(***************************************************************************)
SECONDS_PER_MESSAGE == 2
MIN_CHANNEL_IDLE_TIME == 2
MIN_CHANNEL_IDLE_TIME_DEFAULT == 2
PERIOD_HOURS_MIN == 1
PERIOD_HOURS_DEFAULT == 2

\* config.get('period', config.PERIOD_HOURS_DEFAULT) for the periods, in
\* hours, a feed may be given: none, one below the minimum, the minimum, and
\* one above it.
NoPeriod == -1
Periods == {NoPeriod, 0, 1, 2}
ConfigPeriod(period) == IF period = NoPeriod THEN PERIOD_HOURS_DEFAULT ELSE period

AlertsChannel == "alerts"
\* The feeds of the instance, as (channel, feed name).
Feeds == {<<"c1", "f1">>, <<"c2", "f2">>}
Channels == {r[1] : r \in Feeds}
\* All channels the bot joins; the alerts channel has no feeds, so its
\* messenger never dequeues anything and is not a process of the model.
AllChannels == Channels \cup {AlertsChannel}
NoGroup == "nogroup"

\* The configuration of the two feeds of the instance.
ConfiguredFeeds ==
    [r \in Feeds |->
        IF r = <<"c1", "f1">>
        THEN [group |-> "g", new |-> "some", dedup |-> "feed", shorten |-> TRUE,
              period |-> NoPeriod]
        ELSE [group |-> "g", new |-> "all", dedup |-> "channel", shorten |-> FALSE,
              period |-> NoPeriod]]

ChannelFeeds(c) == {r \in Feeds : r[1] = c}

Min(a, b) == IF a <= b THEN a ELSE b
Max(a, b) == IF a >= b THEN a ELSE b
Range(s) == {s[i] : i \in 1..Len(s)}
SelectSeq2(s, S) == SelectSeq(s, LAMBDA x : x \in S)
Prefix(s, n) == SubSeq(s, 1, Min(n, Len(s)))
DictSet(d, k, v) == [x \in DOMAIN d \cup {k} |-> IF x = k THEN v ELSE d[x]]

\* Entry lists a poll can produce: the feed publishes u1 and later u2, and a
\* poll sees either.  _process_entries ends with _dedupe_entries, so no
\* long_url occurs twice.  An entry is identified with its long_url.
Contents == {<<"u1">>, <<"u1", "u2">>}

\* A Feed object as handed from reader to messenger.
FeedObj(r, e) == [channel |-> r[1], name |-> r[2], entries |-> e]
NoFeed == [channel |-> "-", name |-> "-", entries |-> <<>>]

(***************************************************************************)
(* Time.  Every value of time.monotonic() that the program keeps is held   *)
(* as its distance from the present: a timestamp t as the elapsed time     *)
(* now - t, the end of a sleep as the time still to sleep.  The program    *)
(* only ever compares an elapsed time with MIN_CHANNEL_IDLE_TIME or with   *)
(* SECONDS_PER_MESSAGE, so an elapsed time stops growing at that value.    *)
(***************************************************************************)
VARIABLES
    instance_feeds,                  \* config: (channel, feed) -> its configuration
    failing,                         \* the feeds whose every poll raises
    CHANNEL_JOIN_EVENTS,             \* channel -> is the event set
    CHANNEL_LAST_INCOMING_MSG_TIMES, \* dict: channel -> time elapsed since the timestamp
    CHANNEL_QUEUES,                  \* channel -> sequence of Feed objects
    unfinished_tasks,                \* channel -> Queue.unfinished_tasks
    FEED_GROUP_BARRIERS,             \* group -> [state, count]
    outgoing_msg_lock,               \* "free" or the channel of its holder
    posted,                          \* rows of the posted table of the database
    once,                            \* instance.get('once')
    jpc,                             \* _handle_join: position per channel
    rpc, rcycle, rpass, rfeed,       \* reader: pc, polls done, barrier arrivals, entries read
    full_alerted,                    \* history: readers that alerted on queue.Full for the Feed they hold
    ppc, pfeed, unposted, postable,  \* messenger: pc, dequeued feed, cached properties
    pidx,                            \* messenger: index of the entry being posted
    last_incoming_msg_time,          \* messenger: time elapsed since the timestamp read in the gate
    psleep,                          \* messenger: time left of the current time.sleep
    pexc,                            \* messenger: the exception that is propagating
    batch,                           \* history: entries of the dequeued feed sent so far
    last_sent,                       \* history: time elapsed since the last entry message
    unpaced,                         \* history: kinds of message sent too soon after an entry
    sent_unjoined,                   \* history: senders of a message before the join events
    alerts_sent,                     \* history: number of alerts sent
    nevents,                         \* failures and inbound messages so far
    feed_urls, urls_failing,         \* Feed._read_entries: self.urls, the URLs whose fetch fails
    urls_pending, urls_read,         \* Feed._read_entries: locals
    read_entries,                    \* Feed._read_entries: the local 'entries'
    fetched,                         \* history: the URLs given to URLReader.url_content, in call order
    read_pc,                         \* Feed._read_entries: position
    irc_event,                       \* history: the message last handled, under any spelling
    feed_config,                     \* Feed._process_entries: the 'blacklist' and 'whitelist' of self.config
    proc_input, proc_entries,        \* Feed._process_entries: the argument, the local 'entries'
    proc_pc,                         \* Feed._process_entries: position
    shake_128,                       \* hashlib.shake_128(seed).digest(BYTES), seed -> digest
    as_int_cache,                    \* Int8Hash.as_int: the lru_cache, text -> result
    hash_text, hash_int,             \* Int8Hash.as_int: the last call's argument and hash_int
    hash_pc,                         \* Int8Hash.as_int: position of the last call
    sched_now,                       \* Bot._read_feed: time.monotonic()
    sched_start,                     \* history: time.monotonic() as read at line 134
    feed_period_avg, query_time,     \* Bot._read_feed: locals
    sched_wake,                      \* Bot._read_feed: the time at which time.sleep of line 144 may return
    sched_pc                         \* Bot._read_feed: position in the schedule

vars == <<instance_feeds, failing, CHANNEL_JOIN_EVENTS, CHANNEL_LAST_INCOMING_MSG_TIMES, CHANNEL_QUEUES,
          unfinished_tasks, alerts_sent,
          feed_urls, urls_failing, urls_pending, urls_read, read_entries, fetched, read_pc,
          irc_event, feed_config, proc_input, proc_entries, proc_pc,
          shake_128, as_int_cache, hash_text, hash_int, hash_pc,
          sched_now, sched_start, feed_period_avg, query_time, sched_wake, sched_pc,
          FEED_GROUP_BARRIERS, outgoing_msg_lock, posted, once, jpc,
          rpc, rcycle, rpass, rfeed, full_alerted, ppc, pfeed, unposted, postable, pidx,
          last_incoming_msg_time, psleep, pexc, batch, last_sent, unpaced, sent_unjoined,
          nevents>>

handlerVars == <<CHANNEL_JOIN_EVENTS, CHANNEL_LAST_INCOMING_MSG_TIMES, jpc>>
frameVars == <<once, instance_feeds, failing>>
readerVars == <<rpc, rcycle, rpass, rfeed, full_alerted>>
posterVars == <<ppc, pfeed, unposted, postable, pidx, last_incoming_msg_time, psleep, pexc,
               batch>>
sentVars == <<last_sent, unpaced, sent_unjoined, alerts_sent>>
readVars == <<feed_urls, urls_failing, urls_pending, urls_read, read_entries, fetched, read_pc>>
procVars == <<feed_config, proc_input, proc_entries, proc_pc>>
hashVars == <<shake_128, as_int_cache, hash_text, hash_int, hash_pc>>
schedVars == <<sched_now, sched_start, feed_period_avg, query_time, sched_wake, sched_pc>>
auxVars == <<readVars, irc_event, procVars, hashVars, schedVars>>
botVars == <<handlerVars, frameVars, readerVars, posterVars, sentVars, CHANNEL_QUEUES,
             unfinished_tasks, FEED_GROUP_BARRIERS, outgoing_msg_lock, posted, nevents>>

\* instance['feeds'][channel][feed] merged over instance['defaults'].
FeedConfig(r) == instance_feeds[r]

Groups == {FeedConfig(r).group : r \in Feeds} \ {NoGroup}

(***************************************************************************)
(* Database (db.Database): the posted table, rows (channel, feed, url).    *)
(***************************************************************************)
is_new_feed(rows, channel, feed) ==
    ~ \E row \in rows : row[1] = channel /\ row[2] = feed

select_unposted_for_channel(rows, channel, feed, long_urls) ==
    SelectSeq(long_urls, LAMBDA u : ~ \E row \in rows : row[1] = channel /\ row[3] = u)

select_unposted_for_channel_feed(rows, channel, feed, long_urls) ==
    SelectSeq(long_urls, LAMBDA u : <<channel, feed, u>> \notin rows)

insert_posted(rows, channel, feed, long_urls) ==
    rows \cup {<<channel, feed, u>> : u \in Range(long_urls)}

\* config.NEW_FEED_POSTS_MAX[tag] applied as entries[:max_posts]; "all" is None,
\* and the cap of "some" is taken as 1 so that two entries exceed it.
NEW_FEED_POSTS_MAX(tag, n) ==
    CASE tag = "none" -> 0
      [] tag = "some" -> 1
      [] OTHER -> n

(***************************************************************************)
(* Feed.unposted_entries and Feed.postable_entries (cached properties,     *)
(* evaluated by the messenger when it first reads them).                   *)
(***************************************************************************)
\* Variant of unposted_entries for sensitivity checks: every entry counts as unposted.
unposted_entries_unfiltered(rows, feed) == feed.entries

\* Variant of unposted_entries for sensitivity checks: the scope is always the feed.
unposted_entries_feed_scope(rows, feed) ==
    SelectSeq2(feed.entries,
               Range(select_unposted_for_channel_feed(rows, feed.channel, feed.name, feed.entries)))

unposted_entries(rows, feed) ==
    LET entries == feed.entries
        dedup_strategy == FeedConfig(<<feed.channel, feed.name>>).dedup
        long_urls ==
            IF dedup_strategy = "channel"
            THEN select_unposted_for_channel(rows, feed.channel, feed.name, entries)
            ELSE select_unposted_for_channel_feed(rows, feed.channel, feed.name, entries)
    IN  SelectSeq2(entries, Range(long_urls))

\* Variant of postable_entries for sensitivity checks: the whole feed is postable, posted or not.
postable_entries_whole_feed(rows, feed, entries) == feed.entries

postable_entries(rows, feed, entries) ==
    IF is_new_feed(rows, feed.channel, feed.name)
    THEN Prefix(entries,
                NEW_FEED_POSTS_MAX(FeedConfig(<<feed.channel, feed.name>>).new, Len(entries)))
    ELSE entries

(***************************************************************************)
(* Outbound messages: irc.msg(target, msg), of kind "entry" (a messenger's *)
(* entry post) or "alert".  The history variables record how long ago the  *)
(* last entry message was sent, which kinds of message were sent less than *)
(* SECONDS_PER_MESSAGE after an entry message, and who sent to a channel   *)
(* before its and the alerts channel's join events.                        *)
(***************************************************************************)
irc_msg(sender, kind, target) ==
    /\ last_sent' = IF kind = "entry" THEN 0 ELSE last_sent
    /\ unpaced' = IF last_sent < SECONDS_PER_MESSAGE THEN unpaced \cup {kind} ELSE unpaced
    /\ alerts_sent' = IF kind = "alert" THEN alerts_sent + 1 ELSE alerts_sent
    /\ sent_unjoined' =
            IF CHANNEL_JOIN_EVENTS[target] /\ CHANNEL_JOIN_EVENTS[AlertsChannel]
            THEN sent_unjoined
            ELSE sent_unjoined \cup {sender}

\* _alert, line 23.
_alert(sender) == irc_msg(sender, "alert", AlertsChannel)

(***************************************************************************)
(* Initial state: after Bot.__init__ and _setup_channels.                  *)
(***************************************************************************)
\* Variant of Parties for sensitivity checks: only the feeds of one channel are counted.
Parties_one_channel(g) == Cardinality({r \in Feeds : FeedConfig(r).group = g /\ r[1] = "c1"})

\* Lines 190-208: barriers_parties[group], counted over the feeds of all channels.
Parties(g) == Cardinality({r \in Feeds : FeedConfig(r).group = g})

BotInit ==
    /\ instance_feeds = ConfiguredFeeds
    /\ failing = {}
    /\ CHANNEL_JOIN_EVENTS = [c \in AllChannels |-> FALSE]
    /\ CHANNEL_LAST_INCOMING_MSG_TIMES = <<>>
    /\ CHANNEL_QUEUES = [c \in Channels |-> <<>>]
    /\ unfinished_tasks = [c \in Channels |-> 0]
    /\ FEED_GROUP_BARRIERS = [g \in Groups |-> [state |-> 0, count |-> 0]]
    /\ outgoing_msg_lock = "free"
    /\ posted = {}
    /\ once \in BOOLEAN
    /\ jpc = [c \in AllChannels |-> "none"]
    /\ rpc = [r \in Feeds |-> "loop"]
    /\ rcycle = [r \in Feeds |-> 0]
    /\ rpass = [r \in Feeds |-> 0]
    /\ rfeed = [r \in Feeds |-> <<>>]
    /\ full_alerted = {}
    /\ ppc = [c \in Channels |-> "get"]
    /\ pfeed = [c \in Channels |-> NoFeed]
    /\ unposted = [c \in Channels |-> <<>>]
    /\ postable = [c \in Channels |-> <<>>]
    /\ pidx = [c \in Channels |-> 0]
    /\ last_incoming_msg_time = [c \in Channels |-> 0]
    /\ psleep = [c \in Channels |-> 0]
    /\ pexc = [c \in Channels |-> "none"]
    /\ batch = [c \in Channels |-> <<>>]
    /\ last_sent = SECONDS_PER_MESSAGE
    /\ unpaced = {}
    /\ sent_unjoined = {}
    /\ alerts_sent = 0
    /\ nevents = 0

\* Nothing is being read by Feed._read_entries.
ReadIdle ==
    /\ feed_urls = <<>>
    /\ urls_failing = {}
    /\ urls_pending = <<>>
    /\ urls_read = <<>>
    /\ read_entries = <<>>
    /\ fetched = <<>>
    /\ read_pc = "idle"

NoEvent == [command |-> "none", channel |-> "-", raised |-> FALSE]

\* A mapping without keys, and a list that is not configured.
EmptyMapping == [key \in {} |-> <<>>]
NotConfigured == [configured |-> FALSE, mapping |-> EmptyMapping]

\* Nothing is being filtered by Feed._process_entries.
ProcIdle ==
    /\ feed_config = [blacklist |-> NotConfigured, whitelist |-> NotConfigured]
    /\ proc_input = <<>>
    /\ proc_entries = <<>>
    /\ proc_pc = "idle"

\* Int8Hash.as_int has not been called.
HashIdle ==
    /\ shake_128 = <<>>
    /\ as_int_cache = <<>>
    /\ hash_text = ""
    /\ hash_int = 0
    /\ hash_pc = "idle"

\* The schedule of a reader is not followed.
SchedIdle ==
    /\ sched_now = 0
    /\ sched_start = 0
    /\ feed_period_avg = 0
    /\ query_time = 0
    /\ sched_wake = 0
    /\ sched_pc = "idle"

AuxIdle == ReadIdle /\ irc_event = NoEvent /\ ProcIdle /\ HashIdle /\ SchedIdle

Init == BotInit /\ AuxIdle

(***************************************************************************)
(* Clock.                                                                  *)
(***************************************************************************)
\* One unit of time passes: elapsed times grow, sleeps shorten.  The timestamp
\* of a channel without feeds is never read, and only its presence is kept.
Tick ==
    /\ CHANNEL_LAST_INCOMING_MSG_TIMES' =
            [ch \in DOMAIN CHANNEL_LAST_INCOMING_MSG_TIMES |->
                IF ch \in Channels
                THEN Min(CHANNEL_LAST_INCOMING_MSG_TIMES[ch] + 1, MIN_CHANNEL_IDLE_TIME)
                ELSE CHANNEL_LAST_INCOMING_MSG_TIMES[ch]]
    /\ last_incoming_msg_time' =
            [c \in Channels |->
                IF ppc[c] \in {"connect", "post", "pad"}
                THEN Min(last_incoming_msg_time[c] + 1, MIN_CHANNEL_IDLE_TIME)
                ELSE last_incoming_msg_time[c]]
    /\ psleep' = [c \in Channels |-> Max(psleep[c] - 1, 0)]
    /\ last_sent' = Min(last_sent + 1, SECONDS_PER_MESSAGE)
    /\ UNCHANGED <<CHANNEL_JOIN_EVENTS, jpc, frameVars,
                   CHANNEL_QUEUES, unfinished_tasks, FEED_GROUP_BARRIERS, outgoing_msg_lock, posted,
                   readerVars, ppc, pfeed, unposted, postable, pidx, pexc, batch,
                   unpaced, sent_unjoined, alerts_sent, nevents>>
    /\ UNCHANGED auxVars

(***************************************************************************)
(* Event handlers.  miniirc runs each handler call in a thread of its own, *)
(* so the two statements of _handle_join are two steps.  The timestamp of  *)
(* the alerts channel, which has no feeds, is never read: its two          *)
(* statements are taken as one step.                                       *)
(***************************************************************************)
\* _handle_join, line 227: the bot's own JOIN to a configured channel.
HandleJoin_Set(ch) ==
    /\ jpc[ch] = "none"
    /\ CHANNEL_JOIN_EVENTS' = [CHANNEL_JOIN_EVENTS EXCEPT ![ch] = TRUE]
    /\ IF ch \in Channels
       THEN /\ jpc' = [jpc EXCEPT ![ch] = "stamp"]
            /\ UNCHANGED CHANNEL_LAST_INCOMING_MSG_TIMES
       ELSE /\ jpc' = [jpc EXCEPT ![ch] = "done"]
            /\ CHANNEL_LAST_INCOMING_MSG_TIMES' =
                    DictSet(CHANNEL_LAST_INCOMING_MSG_TIMES, ch, 0)
    /\ UNCHANGED <<frameVars, CHANNEL_QUEUES, unfinished_tasks, FEED_GROUP_BARRIERS, outgoing_msg_lock,
                   posted, readerVars, posterVars, sentVars, nevents>>
    /\ UNCHANGED auxVars

\* _handle_join, line 228: the timestamp is time.monotonic(), elapsed time 0.
HandleJoin_Stamp(ch) ==
    /\ jpc[ch] = "stamp"
    /\ CHANNEL_LAST_INCOMING_MSG_TIMES' = DictSet(CHANNEL_LAST_INCOMING_MSG_TIMES, ch, 0)
    /\ jpc' = [jpc EXCEPT ![ch] = "done"]
    /\ UNCHANGED <<CHANNEL_JOIN_EVENTS, frameVars,
                   CHANNEL_QUEUES, unfinished_tasks, FEED_GROUP_BARRIERS, outgoing_msg_lock, posted,
                   readerVars, posterVars, sentVars, nevents>>
    /\ UNCHANGED auxVars

\* _handle_privmsg for a message to a configured channel (received only once
\* the server has joined the bot to it).
HandlePrivmsg_Channel(ch) ==
    /\ jpc[ch] # "none"
    /\ nevents < MaxEvents
    /\ nevents' = nevents + 1
    /\ CHANNEL_LAST_INCOMING_MSG_TIMES' = DictSet(CHANNEL_LAST_INCOMING_MSG_TIMES, ch, 0)
    /\ UNCHANGED <<CHANNEL_JOIN_EVENTS, jpc, frameVars,
                   CHANNEL_QUEUES, unfinished_tasks, FEED_GROUP_BARRIERS, outgoing_msg_lock, posted,
                   readerVars, posterVars, sentVars>>
    /\ UNCHANGED auxVars

\* _handle_privmsg for a private message to the bot other than a VERSION probe.
HandlePrivmsg_Private ==
    /\ nevents < MaxEvents
    /\ nevents' = nevents + 1
    /\ _alert("handler")
    /\ UNCHANGED <<CHANNEL_JOIN_EVENTS, CHANNEL_LAST_INCOMING_MSG_TIMES, jpc,
                   frameVars, CHANNEL_QUEUES, unfinished_tasks, FEED_GROUP_BARRIERS,
                   outgoing_msg_lock, posted, readerVars, posterVars>>
    /\ UNCHANGED auxVars

(***************************************************************************)
(* Feed reader: Bot._read_feed(channel, feed_name), r = (channel, feed).   *)
(* A step of a reader runs up to its next blocking call or shared access.  *)
(***************************************************************************)
readerFrame == <<handlerVars, frameVars, outgoing_msg_lock, posted, posterVars>>

\* Variant of JoinEventsSet for sensitivity checks: the alerts channel's join event is not awaited.
JoinEventsSet_own_channel(channel) == CHANNEL_JOIN_EVENTS[channel]

\* Lines 69-70 and 135-136: a messenger and a reader begin only once the join
\* events of their channel and of the alerts channel are set; the events are
\* never cleared, so the wait is a guard of the thread's first blocking step.
JoinEventsSet(channel) ==
    CHANNEL_JOIN_EVENTS[channel] /\ CHANNEL_JOIN_EVENTS[AlertsChannel]

\* queue.Queue(maxsize=num_channel_feeds * 2)
QueueMaxsize(c) == Cardinality(ChannelFeeds(c)) * 2

\* Variant of ReaderNext for sensitivity checks: 'once' is not looked at.
ReaderNext_never_done == "loop"

\* Lines 177-181: the reader returns if `once`, else deletes the feed and loops.
ReaderNext == IF once THEN "done" ELSE "loop"

\* Variant of QueuePut for sensitivity checks: a Feed that finds the queue full is dropped.
QueuePut_dropping(r, e) ==
    /\ IF Len(CHANNEL_QUEUES[r[1]]) < QueueMaxsize(r[1])
       THEN /\ CHANNEL_QUEUES' = [CHANNEL_QUEUES EXCEPT ![r[1]] = Append(@, FeedObj(r, e))]
            /\ unfinished_tasks' = [unfinished_tasks EXCEPT ![r[1]] = @ + 1]
       ELSE UNCHANGED <<CHANNEL_QUEUES, unfinished_tasks>>
    /\ rpc' = [rpc EXCEPT ![r] = ReaderNext]
    /\ rfeed' = [rfeed EXCEPT ![r] = <<>>]
    /\ full_alerted' = full_alerted \ {r}
    /\ UNCHANGED sentVars

\* Lines 166-174 for reader r holding entries e: put_nowait, and on queue.Full
\* the alert, after which the reader blocks in the put of line 172.
QueuePut(r, e) ==
    IF Len(CHANNEL_QUEUES[r[1]]) < QueueMaxsize(r[1])
    THEN /\ CHANNEL_QUEUES' = [CHANNEL_QUEUES EXCEPT ![r[1]] = Append(@, FeedObj(r, e))]
         /\ unfinished_tasks' = [unfinished_tasks EXCEPT ![r[1]] = @ + 1]
         /\ rpc' = [rpc EXCEPT ![r] = ReaderNext]
         /\ rfeed' = [rfeed EXCEPT ![r] = <<>>]
         /\ full_alerted' = full_alerted \ {r}
         /\ UNCHANGED sentVars
    ELSE /\ _alert("reader")
         /\ full_alerted' = full_alerted \cup {r}
         /\ rpc' = [rpc EXCEPT ![r] = "put_blocking"]
         /\ rfeed' = [rfeed EXCEPT ![r] = e]
         /\ UNCHANGED <<CHANNEL_QUEUES, unfinished_tasks>>

\* Variant of Barrier_enter for sensitivity checks: the barrier releases at every arrival.
Barrier_enter_released(b, parties) == [state |-> 1, count |-> b.count + 1]

\* threading.Barrier.wait, entry: _enter blocks while the barrier drains; the
\* arrival that completes the party count releases the barrier.
Barrier_enter(b, parties) ==
    [state |-> IF b.count + 1 = parties THEN 1 ELSE 0, count |-> b.count + 1]

\* threading.Barrier.wait, exit: the last thread to leave resets the barrier.
Barrier_exit(b) ==
    [state |-> IF b.count - 1 = 0 THEN 0 ELSE b.state, count |-> b.count - 1]

\* Lines 135-161 (grouped feed) or 135-174 (no group): the period sleep, of
\* unspecified length here, a poll that returns a Feed with entries e, and
\* then the arrival at the group's barrier or the put.
ReadFeed_Poll(r, polls) ==
    LET g == FeedConfig(r).group IN
    /\ rpc[r] = "loop"
    /\ JoinEventsSet(r[1])
    /\ rcycle[r] < polls
    /\ rcycle' = [rcycle EXCEPT ![r] = @ + 1]
    /\ \E e \in Contents :
          IF g # NoGroup
          THEN /\ FEED_GROUP_BARRIERS[g].state = 0
               /\ FEED_GROUP_BARRIERS' =
                       [FEED_GROUP_BARRIERS EXCEPT ![g] = Barrier_enter(@, Parties(g))]
               /\ rpass' = [rpass EXCEPT ![r] = @ + 1]
               /\ rfeed' = [rfeed EXCEPT ![r] = e]
               /\ rpc' = [rpc EXCEPT ![r] = "barrier_wait"]
               /\ UNCHANGED <<CHANNEL_QUEUES, unfinished_tasks, full_alerted, sentVars>>
          ELSE /\ QueuePut(r, e)
               /\ UNCHANGED <<FEED_GROUP_BARRIERS, rpass>>
    /\ UNCHANGED <<readerFrame, nevents>>
    /\ UNCHANGED auxVars

\* The loop of line 138, followed for MaxPolls iterations.
ReadFeed_Read(r) == ReadFeed_Poll(r, MaxPolls)

\* Lines 135-149, 175-176: a poll in which Feed(...) raises; the iteration is
\* alerted and the reader goes on to its next period.
ReadFeed_ReadFails(r) ==
    /\ rpc[r] = "loop"
    /\ JoinEventsSet(r[1])
    /\ rcycle[r] < MaxPolls
    /\ nevents < MaxEvents
    /\ nevents' = nevents + 1
    /\ rcycle' = [rcycle EXCEPT ![r] = @ + 1]
    /\ _alert("reader")
    /\ UNCHANGED <<readerFrame, rpc, rpass, rfeed, full_alerted, CHANNEL_QUEUES, unfinished_tasks,
                   FEED_GROUP_BARRIERS>>
    /\ UNCHANGED auxVars

\* Lines 161-174: group_barrier.wait() returns and the feed is put with
\* put_nowait; or, after queue.Full, the blocking put of line 172 returns.
ReadFeed_Put(r) ==
    LET g == FeedConfig(r).group IN
    /\ IF rpc[r] = "put_blocking"
       THEN /\ Len(CHANNEL_QUEUES[r[1]]) < QueueMaxsize(r[1])
            /\ UNCHANGED FEED_GROUP_BARRIERS
       ELSE /\ rpc[r] = "barrier_wait"
            /\ FEED_GROUP_BARRIERS[g].state # 0
            /\ FEED_GROUP_BARRIERS' = [FEED_GROUP_BARRIERS EXCEPT ![g] = Barrier_exit(@)]
    /\ QueuePut(r, rfeed[r])
    /\ UNCHANGED <<readerFrame, rcycle, rpass, nevents>>
    /\ UNCHANGED auxVars

(***************************************************************************)
(* Channel messenger: Bot._msg_channel(channel).  A step of a messenger    *)
(* runs up to its next blocking call, send or failure.  pexc names the     *)
(* exception that is on its way to the handler of line 116.                *)
(***************************************************************************)
posterFrame == <<handlerVars, frameVars, FEED_GROUP_BARRIERS, readerVars>>

\* The locals of an iteration are dead once the next feed is awaited.
Forget(c) ==
    /\ pfeed' = [pfeed EXCEPT ![c] = NoFeed]
    /\ unposted' = [unposted EXCEPT ![c] = <<>>]
    /\ postable' = [postable EXCEPT ![c] = <<>>]
    /\ pidx' = [pidx EXCEPT ![c] = 0]
    /\ last_incoming_msg_time' = [last_incoming_msg_time EXCEPT ![c] = 0]
    /\ psleep' = [psleep EXCEPT ![c] = 0]
    /\ pexc' = [pexc EXCEPT ![c] = "none"]
    /\ batch' = [batch EXCEPT ![c] = <<>>]
    /\ unfinished_tasks' = [unfinished_tasks EXCEPT ![c] = @ - 1]

\* Lines 69-76: channel_queue.get(), then feed.postable_entries is computed
\* (and with it feed.unposted_entries) from the database as it is now, and
\* both are cached on the Feed.
MsgChannel_Get(c) ==
    LET feed == Head(CHANNEL_QUEUES[c])
        un == unposted_entries(posted, feed)
        po == postable_entries(posted, feed, un) IN
    /\ ppc[c] = "get"
    /\ JoinEventsSet(c)
    /\ CHANNEL_QUEUES[c] # <<>>
    /\ CHANNEL_QUEUES' = [CHANNEL_QUEUES EXCEPT ![c] = Tail(@)]
    /\ pfeed' = [pfeed EXCEPT ![c] = feed]
    /\ unposted' = [unposted EXCEPT ![c] = un]
    /\ postable' = [postable EXCEPT ![c] = po]
    /\ ppc' = [ppc EXCEPT ![c] = IF po # <<>> THEN "acquire" ELSE "record"]
    /\ UNCHANGED <<posterFrame, pidx, last_incoming_msg_time, psleep, pexc, batch,
                   unfinished_tasks, outgoing_msg_lock, posted, sentVars, nevents>>
    /\ UNCHANGED auxVars

\* Lines 69-76 with url_shortener.shorten_urls raising (feed.py line 315).
MsgChannel_GetFails(c) ==
    LET feed == Head(CHANNEL_QUEUES[c])
        un == unposted_entries(posted, feed)
        po == postable_entries(posted, feed, un) IN
    /\ ppc[c] = "get"
    /\ JoinEventsSet(c)
    /\ CHANNEL_QUEUES[c] # <<>>
    /\ po # <<>>
    /\ FeedConfig(<<c, feed.name>>).shorten
    /\ nevents < MaxEvents
    /\ nevents' = nevents + 1
    /\ CHANNEL_QUEUES' = [CHANNEL_QUEUES EXCEPT ![c] = Tail(@)]
    /\ pfeed' = [pfeed EXCEPT ![c] = feed]
    /\ unposted' = [unposted EXCEPT ![c] = un]
    /\ pexc' = [pexc EXCEPT ![c] = "shorten"]
    /\ ppc' = [ppc EXCEPT ![c] = "alert"]
    /\ UNCHANGED <<posterFrame, postable, batch, pidx, last_incoming_msg_time,
                   psleep, unfinished_tasks, outgoing_msg_lock, posted, sentVars>>
    /\ UNCHANGED auxVars

\* Variant of Lock_acquire for sensitivity checks: the lock is taken whoever holds it.
Lock_acquire_unguarded(lock, c) == TRUE

\* Lines 79-81: the lock is taken when it is free.
Lock_acquire(lock, c) == lock = "free"

\* Variant of Lock_release for sensitivity checks: the release is forgotten.
Lock_release_kept(holder) == holder

\* Lines 87 and 110: the lock after its holder has released it.
Lock_release(holder) == "free"

\* threading.Lock.release(): an unlocked lock raises RuntimeError; a locked
\* one is unlocked, whichever thread calls.
Lock_release_raises(lock) == lock = "free"

\* Variant of IdleSleepTime for sensitivity checks: the idle gate never sleeps.
IdleSleepTime_ungated(time_elapsed) == 0

\* Lines 83-84, on time_elapsed_since_last_ic_msg.
IdleSleepTime(time_elapsed) == Max(0, MIN_CHANNEL_IDLE_TIME - time_elapsed)

\* Variant of MsgChannel_Acquire for sensitivity checks: the KeyError leaves the lock held.
MsgChannel_Acquire_unreleased(c) ==
    /\ ppc[c] = "acquire"
    /\ Lock_acquire(outgoing_msg_lock, c)
    /\ IF c \notin DOMAIN CHANNEL_LAST_INCOMING_MSG_TIMES
       THEN /\ pexc' = [pexc EXCEPT ![c] = "key"]
            /\ ppc' = [ppc EXCEPT ![c] = "alert"]
            /\ outgoing_msg_lock' = c
            /\ UNCHANGED <<last_incoming_msg_time, psleep, pidx>>
       ELSE LET time_elapsed == CHANNEL_LAST_INCOMING_MSG_TIMES[c]
                sleep_time == IdleSleepTime(time_elapsed) IN
            /\ IF sleep_time = 0
               THEN /\ outgoing_msg_lock' = c
                    /\ last_incoming_msg_time' =
                            [last_incoming_msg_time EXCEPT ![c] = time_elapsed]
                    /\ pidx' = [pidx EXCEPT ![c] = 1]
                    /\ \E connected \in BOOLEAN :
                          ppc' = [ppc EXCEPT ![c] = IF connected THEN "post" ELSE "connect"]
                    /\ UNCHANGED psleep
               ELSE /\ outgoing_msg_lock' = Lock_release(c)
                    /\ psleep' = [psleep EXCEPT ![c] = sleep_time]
                    /\ ppc' = [ppc EXCEPT ![c] = "sleep"]
                    /\ UNCHANGED <<last_incoming_msg_time, pidx>>
            /\ UNCHANGED pexc
    /\ UNCHANGED <<posterFrame, pfeed, unposted, postable, batch,
                   CHANNEL_QUEUES, unfinished_tasks, posted, sentVars, nevents>>
    /\ UNCHANGED auxVars

\* Lines 79-93: the lock is acquired and the idle gate evaluated with the lock
\* held.  A channel without a timestamp yet is a KeyError: the finally clause
\* releases the lock.  A channel not idle long enough: the lock is released
\* and the sleep begins.  Else the loop is left with the lock held, and
\* irc.connected is read: the connection is the network's to make and break,
\* so the value read is an input.
MsgChannel_Acquire(c) ==
    /\ ppc[c] = "acquire"
    /\ Lock_acquire(outgoing_msg_lock, c)
    /\ IF c \notin DOMAIN CHANNEL_LAST_INCOMING_MSG_TIMES
       THEN /\ pexc' = [pexc EXCEPT ![c] = "key"]
            /\ ppc' = [ppc EXCEPT ![c] = "alert"]
            /\ outgoing_msg_lock' = Lock_release(c)
            /\ UNCHANGED <<last_incoming_msg_time, psleep, pidx>>
       ELSE LET time_elapsed == CHANNEL_LAST_INCOMING_MSG_TIMES[c]
                sleep_time == IdleSleepTime(time_elapsed) IN
            /\ IF sleep_time = 0
               THEN /\ outgoing_msg_lock' = c
                    /\ last_incoming_msg_time' =
                            [last_incoming_msg_time EXCEPT ![c] = time_elapsed]
                    /\ pidx' = [pidx EXCEPT ![c] = 1]
                    /\ \E connected \in BOOLEAN :
                          ppc' = [ppc EXCEPT ![c] = IF connected THEN "post" ELSE "connect"]
                    /\ UNCHANGED psleep
               ELSE /\ outgoing_msg_lock' = Lock_release(c)
                    /\ psleep' = [psleep EXCEPT ![c] = sleep_time]
                    /\ ppc' = [ppc EXCEPT ![c] = "sleep"]
                    /\ UNCHANGED <<last_incoming_msg_time, pidx>>
            /\ UNCHANGED pexc
    /\ UNCHANGED <<posterFrame, pfeed, unposted, postable, batch,
                   CHANNEL_QUEUES, unfinished_tasks, posted, sentVars, nevents>>
    /\ UNCHANGED auxVars

\* Line 90: time.sleep(sleep_time) returns, back to line 79.
MsgChannel_Sleep(c) ==
    /\ ppc[c] = "sleep"
    /\ psleep[c] = 0
    /\ ppc' = [ppc EXCEPT ![c] = "acquire"]
    /\ UNCHANGED <<posterFrame, pfeed, unposted, postable, batch, pidx,
                   last_incoming_msg_time, psleep, pexc, CHANNEL_QUEUES, unfinished_tasks,
                   outgoing_msg_lock, posted, sentVars, nevents>>
    /\ UNCHANGED auxVars

\* Lines 88-90, 109-110 with an exception raised after the release of line
\* 87, by the logging call or in the sleep: the finally clause releases
\* the lock, which this messenger does not hold.  When the lock is free the
\* release raises RuntimeError; when another messenger holds it, it is
\* unlocked.
MsgChannel_SleepFails(c) ==
    /\ ppc[c] = "sleep"
    /\ nevents < MaxEvents
    /\ nevents' = nevents + 1
    /\ IF Lock_release_raises(outgoing_msg_lock)
       THEN /\ pexc' = [pexc EXCEPT ![c] = "release"]
            /\ UNCHANGED outgoing_msg_lock
       ELSE /\ pexc' = [pexc EXCEPT ![c] = "sleep"]
            /\ outgoing_msg_lock' = Lock_release(c)
    /\ ppc' = [ppc EXCEPT ![c] = "alert"]
    /\ UNCHANGED <<posterFrame, pfeed, unposted, postable, batch, pidx,
                   last_incoming_msg_time, psleep, CHANNEL_QUEUES, unfinished_tasks, posted,
                   sentVars>>
    /\ UNCHANGED auxVars

\* Lines 96-100: the wait for the IRC client to connect ends, after a
\* disconnection of any length.
MsgChannel_Connected(c) ==
    /\ ppc[c] = "connect"
    /\ ppc' = [ppc EXCEPT ![c] = "post"]
    /\ UNCHANGED <<posterFrame, pfeed, unposted, postable, batch, pidx,
                   last_incoming_msg_time, psleep, pexc, CHANNEL_QUEUES, unfinished_tasks,
                   outgoing_msg_lock, posted, sentVars, nevents>>
    /\ UNCHANGED auxVars

\* Variant of PadSleepTime for sensitivity checks: no padding sleep.
PadSleepTime_unpadded(elapsed_since_outgoing_msg) == 0

\* Line 108: the sleep that pads a send made at outgoing_msg_time.
PadSleepTime(elapsed_since_outgoing_msg) ==
    Max(0, SECONDS_PER_MESSAGE - elapsed_since_outgoing_msg)

\* Lines 104-108: entry pidx is sent, and the padding sleep begins.
MsgChannel_Send(c) ==
    /\ ppc[c] = "post"
    /\ irc_msg("messenger", "entry", c)
    /\ batch' = [batch EXCEPT ![c] = Append(@, postable[c][pidx[c]])]
    /\ psleep' = [psleep EXCEPT ![c] = PadSleepTime(0)]
    /\ ppc' = [ppc EXCEPT ![c] = "pad"]
    /\ UNCHANGED <<posterFrame, pfeed, unposted, postable, pidx,
                   last_incoming_msg_time, pexc, CHANNEL_QUEUES, unfinished_tasks, outgoing_msg_lock,
                   posted, nevents>>
    /\ UNCHANGED auxVars

\* Variant of MsgChannel_SendFails for sensitivity checks: the batch is recorded although a send failed.
MsgChannel_SendFails_recorded(c) ==
    /\ ppc[c] = "post"
    /\ nevents < MaxEvents
    /\ nevents' = nevents + 1
    /\ outgoing_msg_lock' = Lock_release(c)
    /\ posted' = insert_posted(posted, c, pfeed[c].name, unposted[c])
    /\ pexc' = [pexc EXCEPT ![c] = "send"]
    /\ ppc' = [ppc EXCEPT ![c] = "alert"]
    /\ UNCHANGED <<posterFrame, pfeed, unposted, postable, batch, pidx,
                   last_incoming_msg_time, psleep, CHANNEL_QUEUES, unfinished_tasks, sentVars>>
    /\ UNCHANGED auxVars

\* Lines 106, 109-110 with irc.msg raising: the finally clause releases the
\* lock; a RuntimeError of the release takes the place of the exception.
MsgChannel_SendFails(c) ==
    /\ ppc[c] = "post"
    /\ nevents < MaxEvents
    /\ nevents' = nevents + 1
    /\ IF Lock_release_raises(outgoing_msg_lock)
       THEN /\ pexc' = [pexc EXCEPT ![c] = "release"]
            /\ UNCHANGED outgoing_msg_lock
       ELSE /\ pexc' = [pexc EXCEPT ![c] = "send"]
            /\ outgoing_msg_lock' = Lock_release(c)
    /\ ppc' = [ppc EXCEPT ![c] = "alert"]
    /\ UNCHANGED <<posterFrame, pfeed, unposted, postable, batch, pidx,
                   last_incoming_msg_time, psleep, CHANNEL_QUEUES, unfinished_tasks, posted, sentVars>>
    /\ UNCHANGED auxVars

\* Variant of MsgChannel_Pad for sensitivity checks: the loop ends after the first entry.
MsgChannel_Pad_first_only(c) ==
    /\ ppc[c] = "pad"
    /\ psleep[c] = 0
    /\ outgoing_msg_lock' = Lock_release(c)
    /\ ppc' = [ppc EXCEPT ![c] = "record"]
    /\ UNCHANGED <<posterFrame, pfeed, unposted, postable, batch, pidx,
                   last_incoming_msg_time, psleep, pexc, CHANNEL_QUEUES, unfinished_tasks, posted,
                   sentVars, nevents>>
    /\ UNCHANGED auxVars

\* Lines 108-110: the padding sleep returns; the next entry, or the end of the
\* loop, where the finally clause releases the lock (and raises when the
\* lock is not locked).
MsgChannel_Pad(c) ==
    /\ ppc[c] = "pad"
    /\ psleep[c] = 0
    /\ IF pidx[c] < Len(postable[c])
       THEN /\ pidx' = [pidx EXCEPT ![c] = @ + 1]
            /\ ppc' = [ppc EXCEPT ![c] = "post"]
            /\ UNCHANGED <<outgoing_msg_lock, pexc>>
       ELSE IF Lock_release_raises(outgoing_msg_lock)
            THEN /\ pexc' = [pexc EXCEPT ![c] = "release"]
                 /\ ppc' = [ppc EXCEPT ![c] = "alert"]
                 /\ UNCHANGED <<outgoing_msg_lock, pidx>>
            ELSE /\ outgoing_msg_lock' = Lock_release(c)
                 /\ ppc' = [ppc EXCEPT ![c] = "record"]
                 /\ UNCHANGED <<pidx, pexc>>
    /\ UNCHANGED <<posterFrame, pfeed, unposted, postable, batch,
                   last_incoming_msg_time, psleep, CHANNEL_QUEUES, unfinished_tasks, posted,
                   sentVars, nevents>>
    /\ UNCHANGED auxVars

\* Variant of MsgChannel_Record for sensitivity checks: the postable entries are recorded in place of the unposted.
MsgChannel_Record_postable(c) ==
    /\ ppc[c] = "record"
    /\ posted' = insert_posted(posted, c, pfeed[c].name, postable[c])
    /\ ppc' = [ppc EXCEPT ![c] = "get"]
    /\ Forget(c)
    /\ UNCHANGED <<posterFrame, CHANNEL_QUEUES, outgoing_msg_lock, sentVars, nevents>>
    /\ UNCHANGED auxVars

\* Variant of MsgChannel_Record for sensitivity checks: nothing is recorded for a Feed of which nothing was postable.
MsgChannel_Record_when_posted(c) ==
    /\ ppc[c] = "record"
    /\ posted' = IF postable[c] # <<>>
                 THEN insert_posted(posted, c, pfeed[c].name, unposted[c])
                 ELSE posted
    /\ ppc' = [ppc EXCEPT ![c] = "get"]
    /\ Forget(c)
    /\ UNCHANGED <<posterFrame, CHANNEL_QUEUES, outgoing_msg_lock,
                   sentVars, nevents>>
    /\ UNCHANGED auxVars

\* Lines 113-114, 119: db.insert_posted of the unposted entries, task_done.
MsgChannel_Record(c) ==
    /\ ppc[c] = "record"
    /\ posted' = IF unposted[c] # <<>>
                 THEN insert_posted(posted, c, pfeed[c].name, unposted[c])
                 ELSE posted
    /\ ppc' = [ppc EXCEPT ![c] = "get"]
    /\ Forget(c)
    /\ UNCHANGED <<posterFrame, CHANNEL_QUEUES, outgoing_msg_lock,
                   sentVars, nevents>>
    /\ UNCHANGED auxVars

\* Line 114 with db.insert_posted raising.
MsgChannel_RecordFails(c) ==
    /\ ppc[c] = "record"
    /\ unposted[c] # <<>>
    /\ nevents < MaxEvents
    /\ nevents' = nevents + 1
    /\ pexc' = [pexc EXCEPT ![c] = "db"]
    /\ ppc' = [ppc EXCEPT ![c] = "alert"]
    /\ UNCHANGED <<posterFrame, pfeed, unposted, postable, batch, pidx,
                   last_incoming_msg_time, psleep, CHANNEL_QUEUES, unfinished_tasks, outgoing_msg_lock,
                   posted, sentVars>>
    /\ UNCHANGED auxVars

\* Variant of MsgChannel_Alert for sensitivity checks: the exception is not caught and ends the thread.
MsgChannel_Alert_uncaught(c) ==
    /\ ppc[c] = "alert"
    /\ ppc' = [ppc EXCEPT ![c] = "dead"]
    /\ UNCHANGED <<posterFrame, pfeed, unposted, postable, batch, pidx,
                   last_incoming_msg_time, psleep, pexc, CHANNEL_QUEUES, unfinished_tasks,
                   outgoing_msg_lock, posted, sentVars, nevents>>
    /\ UNCHANGED auxVars

\* Lines 116-119: the exception is alerted, task_done.
MsgChannel_Alert(c) ==
    /\ ppc[c] = "alert"
    /\ _alert("messenger")
    /\ ppc' = [ppc EXCEPT ![c] = "get"]
    /\ Forget(c)
    /\ UNCHANGED <<posterFrame, CHANNEL_QUEUES, outgoing_msg_lock,
                   posted, nevents>>
    /\ UNCHANGED auxVars

(***************************************************************************)
(* The system.                                                             *)
(***************************************************************************)
Next ==
    \/ Tick
    \/ \E ch \in AllChannels : HandleJoin_Set(ch)
    \/ \E ch \in Channels : HandleJoin_Stamp(ch)
    \/ \E ch \in Channels : HandlePrivmsg_Channel(ch)
    \/ HandlePrivmsg_Private
    \/ \E r \in Feeds : ReadFeed_Read(r)
    \/ \E r \in Feeds : ReadFeed_ReadFails(r)
    \/ \E r \in Feeds : ReadFeed_Put(r)
    \/ \E c \in Channels : MsgChannel_Get(c)
    \/ \E c \in Channels : MsgChannel_GetFails(c)
    \/ \E c \in Channels : MsgChannel_Acquire(c)
    \/ \E c \in Channels : MsgChannel_Sleep(c)
    \/ \E c \in Channels : MsgChannel_Connected(c)
    \/ \E c \in Channels : MsgChannel_Send(c)
    \/ \E c \in Channels : MsgChannel_SendFails(c)
    \/ \E c \in Channels : MsgChannel_Pad(c)
    \/ \E c \in Channels : MsgChannel_Record(c)
    \/ \E c \in Channels : MsgChannel_RecordFails(c)
    \/ \E c \in Channels : MsgChannel_Alert(c)

Spec == Init /\ [][Next]_vars

TypeOK ==
    /\ outgoing_msg_lock \in Channels \cup {"free"}
    /\ \A c \in Channels : Len(CHANNEL_QUEUES[c]) <= QueueMaxsize(c)

(***************************************************************************)
(* The queues under load.  The bot has joined every channel, the channels  *)
(* have been idle for MIN_CHANNEL_IDLE_TIME, nothing fails and no message  *)
(* comes in; the readers poll MaxPollsFull times, which is more than a     *)
(* channel's queue holds when its messenger is slow.                       *)
(***************************************************************************)
InitQueue ==
    /\ instance_feeds = ConfiguredFeeds
    /\ failing = {}
    /\ CHANNEL_JOIN_EVENTS = [c \in AllChannels |-> TRUE]
    /\ CHANNEL_LAST_INCOMING_MSG_TIMES =
            [c \in AllChannels |-> IF c \in Channels THEN MIN_CHANNEL_IDLE_TIME ELSE 0]
    /\ CHANNEL_QUEUES = [c \in Channels |-> <<>>]
    /\ unfinished_tasks = [c \in Channels |-> 0]
    /\ FEED_GROUP_BARRIERS = [g \in Groups |-> [state |-> 0, count |-> 0]]
    /\ outgoing_msg_lock = "free"
    /\ posted = {}
    /\ once = FALSE
    /\ jpc = [c \in AllChannels |-> "done"]
    /\ rpc = [r \in Feeds |-> "loop"]
    /\ rcycle = [r \in Feeds |-> 0]
    /\ rpass = [r \in Feeds |-> 0]
    /\ rfeed = [r \in Feeds |-> <<>>]
    /\ full_alerted = {}
    /\ ppc = [c \in Channels |-> "get"]
    /\ pfeed = [c \in Channels |-> NoFeed]
    /\ unposted = [c \in Channels |-> <<>>]
    /\ postable = [c \in Channels |-> <<>>]
    /\ pidx = [c \in Channels |-> 0]
    /\ last_incoming_msg_time = [c \in Channels |-> 0]
    /\ psleep = [c \in Channels |-> 0]
    /\ pexc = [c \in Channels |-> "none"]
    /\ batch = [c \in Channels |-> <<>>]
    /\ last_sent = SECONDS_PER_MESSAGE
    /\ unpaced = {}
    /\ sent_unjoined = {}
    /\ alerts_sent = 0
    /\ nevents = MaxEvents
    /\ AuxIdle

NextQueue ==
    \/ Tick
    \/ \E r \in Feeds : ReadFeed_Poll(r, MaxPollsFull)
    \/ \E r \in Feeds : ReadFeed_Put(r)
    \/ \E c \in Channels : MsgChannel_Get(c)
    \/ \E c \in Channels : MsgChannel_Acquire(c)
    \/ \E c \in Channels : MsgChannel_Connected(c)
    \/ \E c \in Channels : MsgChannel_Send(c)
    \/ \E c \in Channels : MsgChannel_Pad(c)
    \/ \E c \in Channels : MsgChannel_Record(c)

SpecQueue == InitQueue /\ [][NextQueue]_vars

(***************************************************************************)
(* The messenger over any database and configuration.  Channel c1 has two  *)
(* feeds, each with any dedup scope and any new-feed policy; the database  *)
(* holds any rows of earlier runs; the queue of c1 holds MaxQueued or      *)
(* fewer Feeds that were read before.  The bot has joined, the channels    *)
(* are idle, nothing fails, and the readers do not run again.              *)
(***************************************************************************)
MaxQueued == 2

QueuedFeeds == {<<"c1", "f1">>, <<"c1", "f2">>}
QueuedContents == {<<"u1">>, <<"u1", "u2">>, <<"u2", "u1", "u3">>}
StoredRows == {<<"c1", "f1", "u1">>, <<"c1", "f2", "u1">>, <<"c1", "f2", "u2">>,
               <<"c2", "f2", "u1">>}

\* The configurations of the feeds of c1; that of c2 is as configured.
FeedConfigs ==
    {[r \in QueuedFeeds \cup Feeds |-> IF r \in QueuedFeeds THEN m[r] ELSE ConfiguredFeeds[r]] :
        m \in [QueuedFeeds -> [group : {NoGroup}, new : {"none", "some", "all"},
                              dedup : {"feed", "channel"}, shorten : {FALSE},
                              period : {NoPeriod}]]}

\* The bot after its joins, with given configurations, queues, rows of the
\* database, times elapsed since the last message came in to c1, and
\* failures had.
JoinedBot(configs, queues, rows, elapsed, events) ==
    /\ instance_feeds \in configs
    /\ failing = {}
    /\ CHANNEL_JOIN_EVENTS = [c \in AllChannels |-> TRUE]
    /\ CHANNEL_LAST_INCOMING_MSG_TIMES \in
            {[c \in AllChannels |->
                IF c = "c1" THEN t ELSE IF c \in Channels THEN MIN_CHANNEL_IDLE_TIME ELSE 0] :
                t \in elapsed}
    /\ CHANNEL_QUEUES \in queues
    /\ unfinished_tasks = [c \in Channels |-> Len(CHANNEL_QUEUES[c])]
    /\ FEED_GROUP_BARRIERS = [g \in Groups |-> [state |-> 0, count |-> 0]]
    /\ outgoing_msg_lock = "free"
    /\ posted \in rows
    /\ once = FALSE
    /\ jpc = [c \in AllChannels |-> "done"]
    /\ rpc = [r \in Feeds |-> "loop"]
    /\ rcycle = [r \in Feeds |-> 0]
    /\ rpass = [r \in Feeds |-> 0]
    /\ rfeed = [r \in Feeds |-> <<>>]
    /\ full_alerted = {}
    /\ ppc = [c \in Channels |-> "get"]
    /\ pfeed = [c \in Channels |-> NoFeed]
    /\ unposted = [c \in Channels |-> <<>>]
    /\ postable = [c \in Channels |-> <<>>]
    /\ pidx = [c \in Channels |-> 0]
    /\ last_incoming_msg_time = [c \in Channels |-> 0]
    /\ psleep = [c \in Channels |-> 0]
    /\ pexc = [c \in Channels |-> "none"]
    /\ batch = [c \in Channels |-> <<>>]
    /\ last_sent = SECONDS_PER_MESSAGE
    /\ unpaced = {}
    /\ sent_unjoined = {}
    /\ alerts_sent = 0
    /\ nevents = events
    /\ AuxIdle

QueuesOf(feeds, contents, n) ==
    UNION {[1..k -> {FeedObj(r, e) : r \in feeds, e \in contents}] : k \in 1..n}

\* Queues of c1, the queue of c2 empty.
OnC1(queues) == {[c \in Channels |-> IF c = "c1" THEN q ELSE <<>>] : q \in queues}

InitDedup ==
    JoinedBot(FeedConfigs, OnC1(QueuesOf(QueuedFeeds, QueuedContents, MaxQueued)),
              SUBSET StoredRows, {MIN_CHANNEL_IDLE_TIME}, MaxEvents)

NextDedup ==
    \/ Tick
    \/ \E c \in Channels : MsgChannel_Get(c)
    \/ \E c \in Channels : MsgChannel_Acquire(c)
    \/ \E c \in Channels : MsgChannel_Connected(c)
    \/ \E c \in Channels : MsgChannel_Send(c)
    \/ \E c \in Channels : MsgChannel_Pad(c)
    \/ \E c \in Channels : MsgChannel_Record(c)

SpecDedup == InitDedup /\ [][NextDedup]_vars

(***************************************************************************)
(* The idle gate for feeds of any period.  The one feed of c1 has any of   *)
(* the periods; a message came in to c1 any time ago; one or two Feeds of  *)
(* it are queued.                                                          *)
(***************************************************************************)
\* feed.py lines 52-56: Feed.min_channel_idle_time.
min_channel_idle_time(feed) ==
    IF ConfigPeriod(FeedConfig(<<feed.channel, feed.name>>).period) > PERIOD_HOURS_MIN
    THEN MIN_CHANNEL_IDLE_TIME_DEFAULT
    ELSE 0

GateConfigs ==
    {[r \in Feeds |->
        IF r = <<"c1", "f1">>
        THEN [group |-> NoGroup, new |-> "all", dedup |-> "feed", shorten |-> FALSE,
              period |-> period]
        ELSE ConfiguredFeeds[r]] : period \in Periods}

InitGate ==
    JoinedBot(GateConfigs, OnC1(QueuesOf({<<"c1", "f1">>}, Contents, MaxQueued)), {{}},
              0..MIN_CHANNEL_IDLE_TIME, MaxEvents)

NextGate ==
    \/ Tick
    \/ \E c \in Channels : MsgChannel_Get(c)
    \/ \E c \in Channels : MsgChannel_Acquire(c)
    \/ \E c \in Channels : MsgChannel_Sleep(c)
    \/ \E c \in Channels : MsgChannel_Connected(c)
    \/ \E c \in Channels : MsgChannel_Send(c)
    \/ \E c \in Channels : MsgChannel_Pad(c)
    \/ \E c \in Channels : MsgChannel_Record(c)

SpecGate == InitGate /\ [][NextGate]_vars

(***************************************************************************)
(* The bot with feeds that are down: every poll of a feed in `failing`      *)
(* raises, in the fetch or in the parser, and no other call fails.  The    *)
(* two feeds are in one group, or in none.  The bot has just joined its   *)
(* channels; the threads are scheduled fairly and time passes.             *)
(***************************************************************************)
ErrorConfigs ==
    {[r \in Feeds |-> [group |-> g, new |-> "all", dedup |-> "feed", shorten |-> FALSE,
                       period |-> NoPeriod]] : g \in {"g", NoGroup}}

InitErrors ==
    /\ instance_feeds \in ErrorConfigs
    /\ failing \in SUBSET Feeds
    /\ CHANNEL_JOIN_EVENTS = [c \in AllChannels |-> TRUE]
    /\ CHANNEL_LAST_INCOMING_MSG_TIMES = [c \in AllChannels |-> 0]
    /\ CHANNEL_QUEUES = [c \in Channels |-> <<>>]
    /\ unfinished_tasks = [c \in Channels |-> 0]
    /\ FEED_GROUP_BARRIERS = [g \in Groups |-> [state |-> 0, count |-> 0]]
    /\ outgoing_msg_lock = "free"
    /\ posted = {}
    /\ once = FALSE
    /\ jpc = [c \in AllChannels |-> "done"]
    /\ rpc = [r \in Feeds |-> "loop"]
    /\ rcycle = [r \in Feeds |-> 0]
    /\ rpass = [r \in Feeds |-> 0]
    /\ rfeed = [r \in Feeds |-> <<>>]
    /\ full_alerted = {}
    /\ ppc = [c \in Channels |-> "get"]
    /\ pfeed = [c \in Channels |-> NoFeed]
    /\ unposted = [c \in Channels |-> <<>>]
    /\ postable = [c \in Channels |-> <<>>]
    /\ pidx = [c \in Channels |-> 0]
    /\ last_incoming_msg_time = [c \in Channels |-> 0]
    /\ psleep = [c \in Channels |-> 0]
    /\ pexc = [c \in Channels |-> "none"]
    /\ batch = [c \in Channels |-> <<>>]
    /\ last_sent = SECONDS_PER_MESSAGE
    /\ unpaced = {}
    /\ sent_unjoined = {}
    /\ alerts_sent = 0
    /\ nevents = MaxEvents
    /\ AuxIdle

\* Lines 138-174 of a feed that is up.
ReadFeed_Up(r) ==
    /\ r \notin failing
    /\ ReadFeed_Read(r)

\* Lines 138-149, 175-176 of a feed that is down: Feed(...) raises, the
\* iteration is alerted and the reader goes on to its next period.
ReadFeed_Down(r) ==
    /\ r \in failing
    /\ rpc[r] = "loop"
    /\ JoinEventsSet(r[1])
    /\ rcycle[r] < MaxPolls
    /\ rcycle' = [rcycle EXCEPT ![r] = @ + 1]
    /\ _alert("reader")
    /\ UNCHANGED <<readerFrame, rpc, rpass, rfeed, full_alerted, CHANNEL_QUEUES, unfinished_tasks,
                   FEED_GROUP_BARRIERS, nevents>>
    /\ UNCHANGED auxVars

Reader(r) == ReadFeed_Up(r) \/ ReadFeed_Down(r) \/ ReadFeed_Put(r)

Messenger(c) ==
    \/ MsgChannel_Get(c)
    \/ MsgChannel_Acquire(c)
    \/ MsgChannel_Sleep(c)
    \/ MsgChannel_Connected(c)
    \/ MsgChannel_Send(c)
    \/ MsgChannel_Pad(c)
    \/ MsgChannel_Record(c)

NextErrors ==
    \/ Tick
    \/ \E r \in Feeds : ReadFeed_Up(r)
    \/ \E r \in Feeds : ReadFeed_Down(r)
    \/ \E r \in Feeds : ReadFeed_Put(r)
    \/ \E c \in Channels : MsgChannel_Get(c)
    \/ \E c \in Channels : MsgChannel_Acquire(c)
    \/ \E c \in Channels : MsgChannel_Sleep(c)
    \/ \E c \in Channels : MsgChannel_Connected(c)
    \/ \E c \in Channels : MsgChannel_Send(c)
    \/ \E c \in Channels : MsgChannel_Pad(c)
    \/ \E c \in Channels : MsgChannel_Record(c)

SpecErrors == InitErrors /\ [][NextErrors]_vars

\* Every reader thread and every messenger thread that can run does run, and
\* the clock advances.
SpecErrorsFair ==
    /\ SpecErrors
    /\ WF_vars(Tick)
    /\ \A r \in Feeds : WF_vars(Reader(r))
    /\ \A c \in Channels : WF_vars(Messenger(c))

(***************************************************************************)
(* The bot from its start under fair scheduling, when every send and every *)
(* call of the database returns.  Every join is handled, and the handler,  *)
(* reader and messenger threads that can run do run: the wait for the      *)
(* connection ends and the clock advances.  The last incoming message of   *)
(* a channel is the bot's own join, so that each channel comes to be idle. *)
(***************************************************************************)
JoinHandler(ch) == HandleJoin_Set(ch) \/ HandleJoin_Stamp(ch)

NextLive ==
    \/ Tick
    \/ \E ch \in AllChannels : HandleJoin_Set(ch)
    \/ \E ch \in Channels : HandleJoin_Stamp(ch)
    \/ \E r \in Feeds : ReadFeed_Read(r)
    \/ \E r \in Feeds : ReadFeed_Put(r)
    \/ \E c \in Channels : MsgChannel_Get(c)
    \/ \E c \in Channels : MsgChannel_Acquire(c)
    \/ \E c \in Channels : MsgChannel_Sleep(c)
    \/ \E c \in Channels : MsgChannel_Connected(c)
    \/ \E c \in Channels : MsgChannel_Send(c)
    \/ \E c \in Channels : MsgChannel_Pad(c)
    \/ \E c \in Channels : MsgChannel_Record(c)
    \/ \E c \in Channels : MsgChannel_Alert(c)

SpecLive ==
    /\ Init /\ [][NextLive]_vars
    /\ WF_vars(Tick)
    /\ \A ch \in AllChannels : WF_vars(JoinHandler(ch))
    /\ \A r \in Feeds : WF_vars(ReadFeed_Read(r) \/ ReadFeed_Put(r))
    /\ \A c \in Channels : WF_vars(Messenger(c) \/ MsgChannel_Alert(c))

(***************************************************************************)
(* The messengers with an exception in the idle gate.  Both channels have  *)
(* Feeds queued, c1 is not idle yet, and MaxEvents failures are to come,   *)
(* in a send, in the database, or after the release of line 87.            *)
(***************************************************************************)
InitFinally ==
    JoinedBot({ConfiguredFeeds},
              {[c \in Channels |-> IF c = "c1" THEN q1 ELSE q2] :
                    q1 \in QueuesOf({<<"c1", "f1">>}, Contents, MaxQueued),
                    q2 \in QueuesOf({<<"c2", "f2">>}, Contents, 1)},
              {{}}, 0..MIN_CHANNEL_IDLE_TIME, 0)

NextFinally ==
    \/ Tick
    \/ \E c \in Channels : MsgChannel_Get(c)
    \/ \E c \in Channels : MsgChannel_Acquire(c)
    \/ \E c \in Channels : MsgChannel_Sleep(c)
    \/ \E c \in Channels : MsgChannel_SleepFails(c)
    \/ \E c \in Channels : MsgChannel_Connected(c)
    \/ \E c \in Channels : MsgChannel_Send(c)
    \/ \E c \in Channels : MsgChannel_SendFails(c)
    \/ \E c \in Channels : MsgChannel_Pad(c)
    \/ \E c \in Channels : MsgChannel_Record(c)
    \/ \E c \in Channels : MsgChannel_RecordFails(c)
    \/ \E c \in Channels : MsgChannel_Alert(c)

SpecFinally == InitFinally /\ [][NextFinally]_vars

(***************************************************************************)
(* Feed._read_entries (feed.py lines 90-152): the poll of one feed over    *)
(* its URLs.  URLReader and the parsers are outside the source at hand:    *)
(* a fetch returns the content of the URL or fails by raising, and the     *)
(* parser of a content gives its entries and the URLs to follow.           *)
(***************************************************************************)
Urls == {"a", "b", "c"}
MaxSeedUrls == 2

\* The lists of distinct seed URLs of a feed.
SeedLists ==
    {u \in UNION {[1..n -> Urls] : n \in 1..MaxSeedUrls} :
        \A i, j \in 1..Len(u) : i # j => u[i] # u[j]}

\* parser.entries and parser.urls of the content of a URL.
ParserEntries(url) ==
    CASE url = "a" -> <<"a1", "a2">>
      [] url = "b" -> <<"b1">>
      [] url = "c" -> <<"c1">>

ParserUrls(url) ==
    CASE url = "a" -> <<"c">>
      [] url = "b" -> <<>>
      [] url = "c" -> <<"a">>

\* Variant of OrderedSetUpdate for sensitivity checks: a list's extend, members or not.
OrderedSetUpdate_extend(set, new) == set \o new

\* OrderedSet.update(sequence), and OrderedSet.add(key) as the update with
\* one key: the keys that are not members go to the end, in their order.
OrderedSetUpdate(set, new) == set \o SelectSeq(new, LAMBDA u : u \notin Range(set))

\* URLReader.url_content(url): TRUE when the fetch fails for good.
url_content_raises(url) == url \in urls_failing

\* Lines 110-111: urls_pending, urls_read = OrderedSet(self.urls), OrderedSet().
InitRead ==
    /\ BotInit
    /\ SchedIdle
    /\ feed_urls \in SeedLists
    /\ urls_failing \in SUBSET Urls
    /\ urls_pending = feed_urls
    /\ urls_read = <<>>
    /\ read_entries = <<>>
    /\ fetched = <<>>
    /\ read_pc = "loop"
    /\ irc_event = NoEvent
    /\ ProcIdle
    /\ HashIdle

\* Lines 112-128: one iteration of the loop: the oldest pending URL is read
\* and parsed, its entries are appended and its new URLs are made pending.
ReadEntries_Url ==
    LET url == Head(urls_pending) IN
    /\ read_pc = "loop"
    /\ urls_pending # <<>>
    /\ ~url_content_raises(url)
    /\ fetched' = Append(fetched, url)
    /\ urls_read' = OrderedSetUpdate(urls_read, <<url>>)
    /\ read_entries' = read_entries \o ParserEntries(url)
    /\ urls_pending' =
            OrderedSetUpdate(Tail(urls_pending),
                             SelectSeq(ParserUrls(url), LAMBDA u : u \notin Range(urls_read')))
    /\ UNCHANGED <<feed_urls, urls_failing, read_pc, botVars, irc_event, procVars, hashVars, schedVars>>

\* Lines 114-115 with URLReader.url_content raising: nothing in _read_entries
\* or Feed.__post_init__ catches, and the exception leaves Feed(...) for the
\* handler of bot.py line 175; the entries read so far are locals of the
\* frame that is left.
ReadEntries_UrlFails ==
    /\ read_pc = "loop"
    /\ urls_pending # <<>>
    /\ url_content_raises(Head(urls_pending))
    /\ urls_pending' = Tail(urls_pending)
    /\ fetched' = Append(fetched, Head(urls_pending))
    /\ read_pc' = "raised"
    /\ UNCHANGED <<feed_urls, urls_failing, urls_read, read_entries, botVars, irc_event, procVars, hashVars, schedVars>>

\* Lines 112, 151-152: no URL is pending and the entries are returned.
ReadEntries_Return ==
    /\ read_pc = "loop"
    /\ urls_pending = <<>>
    /\ read_pc' = "returned"
    /\ UNCHANGED <<feed_urls, urls_failing, urls_pending, urls_read, read_entries, fetched,
                   botVars, irc_event, procVars, hashVars, schedVars>>

NextRead ==
    \/ ReadEntries_Url
    \/ ReadEntries_UrlFails
    \/ ReadEntries_Return

SpecRead == InitRead /\ [][NextRead]_vars

\* The loop of lines 112-149 has no blocking call but the fetch and the sleep
\* between URLs, which return: an iteration that can run does run.
SpecReadFair == SpecRead /\ WF_vars(NextRead)

\* Line 152: num_urls_read is len(urls_read).
num_urls_read == Len(urls_read)

(***************************************************************************)
(* The handlers under any spelling of a channel name (bot.py lines         *)
(* 215-256).  The server names a channel in the letter case it keeps for   *)
(* it, which need not be the case of the configuration.  Each handler call *)
(* is one step here, and the workers are left out: what they wait on and   *)
(* read is CHANNEL_JOIN_EVENTS[channel] and                                *)
(* CHANNEL_LAST_INCOMING_MSG_TIMES[channel] under the configured name.     *)
(***************************************************************************)
Spellings == {"c1", "C1", "c2", "C2", "alerts", "Alerts"}

\* str.casefold on the spellings.
casefold(name) ==
    CASE name \in {"c1", "C1"} -> "c1"
      [] name \in {"c2", "C2"} -> "c2"
      [] name \in {"alerts", "Alerts"} -> "alerts"

\* config.INSTANCE['channels:casefold'].
channels_casefold == {casefold(ch) : ch \in AllChannels}

InitCase ==
    /\ BotInit
    /\ SchedIdle
    /\ ReadIdle
    /\ irc_event = NoEvent
    /\ ProcIdle
    /\ HashIdle

\* _handle_join for the bot's own JOIN: the guard of line 222 compares the
\* casefolded name, lines 227-228 index the dicts with the name as received;
\* CHANNEL_JOIN_EVENTS has the configured names only, and a name that is
\* not among them raises KeyError at line 227.
HandleJoin_Named(name) ==
    /\ casefold(name) \in channels_casefold
    /\ IF name \in DOMAIN CHANNEL_JOIN_EVENTS
       THEN /\ CHANNEL_JOIN_EVENTS' = [CHANNEL_JOIN_EVENTS EXCEPT ![name] = TRUE]
            /\ CHANNEL_LAST_INCOMING_MSG_TIMES' =
                    DictSet(CHANNEL_LAST_INCOMING_MSG_TIMES, name, 0)
            /\ irc_event' = [command |-> "JOIN", channel |-> name, raised |-> FALSE]
       ELSE /\ irc_event' = [command |-> "JOIN", channel |-> name, raised |-> TRUE]
            /\ UNCHANGED <<CHANNEL_JOIN_EVENTS, CHANNEL_LAST_INCOMING_MSG_TIMES>>
    /\ jpc' = [jpc EXCEPT ![casefold(name)] = "done"]
    /\ UNCHANGED <<frameVars, readerVars, posterVars, sentVars, CHANNEL_QUEUES,
                   unfinished_tasks, FEED_GROUP_BARRIERS, outgoing_msg_lock, posted,
                   nevents, readVars, procVars, hashVars, schedVars>>

\* _handle_privmsg for a message to a channel the bot is in: the guard of
\* line 239 compares the casefolded name, line 254 assigns under the name as
\* received.
HandlePrivmsg_Named(name) ==
    /\ casefold(name) \in channels_casefold
    /\ jpc[casefold(name)] = "done"
    /\ CHANNEL_LAST_INCOMING_MSG_TIMES' = DictSet(CHANNEL_LAST_INCOMING_MSG_TIMES, name, 0)
    /\ irc_event' = [command |-> "PRIVMSG", channel |-> name, raised |-> FALSE]
    /\ UNCHANGED <<CHANNEL_JOIN_EVENTS, jpc, frameVars, readerVars, posterVars, sentVars,
                   CHANNEL_QUEUES, unfinished_tasks, FEED_GROUP_BARRIERS,
                   outgoing_msg_lock, posted, nevents, readVars, procVars, hashVars, schedVars>>

\* One unit of time passes with no message handled.
TickCase ==
    /\ CHANNEL_LAST_INCOMING_MSG_TIMES' =
            [ch \in DOMAIN CHANNEL_LAST_INCOMING_MSG_TIMES |->
                Min(CHANNEL_LAST_INCOMING_MSG_TIMES[ch] + 1, MIN_CHANNEL_IDLE_TIME)]
    /\ irc_event' = NoEvent
    /\ UNCHANGED <<CHANNEL_JOIN_EVENTS, jpc, frameVars, readerVars, posterVars, sentVars,
                   CHANNEL_QUEUES, unfinished_tasks, FEED_GROUP_BARRIERS,
                   outgoing_msg_lock, posted, nevents, readVars, procVars, hashVars, schedVars>>

NextCase ==
    \/ \E name \in Spellings : HandleJoin_Named(name)
    \/ \E name \in Spellings : HandlePrivmsg_Named(name)
    \/ TickCase

SpecCase == InitCase /\ [][NextCase]_vars

(***************************************************************************)
(* Feed._process_entries, the blacklist and whitelist stages (feed.py      *)
(* lines 154-180) with the patterns of _patterns (lines 26-35).  A title   *)
(* is the set of its words and a pattern is a word: the pattern is found   *)
(* in a title that has the word, in a URL or category equal to it.         *)
(* FeedEntry is outside the source at hand: its blacklisted_pattern and    *)
(* whitelisted_pattern search the feed's patterns key by key.              *)
(***************************************************************************)
MaxEntries == 2
PatternKeys == {"title", "url", "category"}

EntryPool ==
    {[title |-> t, url |-> u, category |-> c] :
        t \in SUBSET {"spam", "alpha"}, u \in {"u1"}, c \in {"tech", "misc"}}

\* The values a 'blacklist' or 'whitelist' of a feed may have in the
\* configuration: not given, a mapping without keys, keys with empty pattern
\* lists, and keys with patterns.
ListConfigs ==
    {NotConfigured} \cup
    {[configured |-> TRUE, mapping |-> m] :
        m \in {EmptyMapping,
               [key \in {"title"} |-> <<>>],
               [key \in {"title", "category"} |-> <<>>],
               [key \in {"title"} |-> <<"spam">>],
               [key \in {"title"} |-> <<"alpha">>],
               [key \in {"category"} |-> <<"tech">>],
               [key \in {"title", "url"} |-> IF key = "title" THEN <<"alpha">> ELSE <<"u1">>]}}

\* dict.get(list_type, {}) of the feed's configuration.
ConfigGet(list_config) == IF list_config.configured THEN list_config.mapping ELSE EmptyMapping

\* The truth value of a dict: it has a key.
Truthy(mapping) == DOMAIN mapping # {}

\* _patterns, lines 33-34: the patterns of every key, none for a key not given.
_patterns(list_config) ==
    LET mapping == ConfigGet(list_config) IN
    [key \in PatternKeys |-> IF key \in DOMAIN mapping THEN mapping[key] ELSE <<>>]

\* pattern.search(value) under a key.
Search(key, pattern, entry) ==
    CASE key = "title" -> pattern \in entry.title
      [] key = "url" -> pattern = entry.url
      [] key = "category" -> pattern = entry.category

\* FeedEntry's search of the patterns of a list: is there a key and a pattern
\* of it that the entry matches.
matching_pattern(patterns, entry) ==
    \E key \in PatternKeys : \E i \in 1..Len(patterns[key]) : Search(key, patterns[key][i], entry)

\* entry.blacklisted_pattern and entry.whitelisted_pattern, with
\* feed.blacklist and feed.whitelist of lines 57-58.
blacklisted_pattern(entry) == matching_pattern(_patterns(feed_config.blacklist), entry)

whitelisted_pattern(entry) == matching_pattern(_patterns(feed_config.whitelist), entry)

InitProc ==
    /\ BotInit
    /\ SchedIdle
    /\ ReadIdle
    /\ irc_event = NoEvent
    /\ feed_config \in [blacklist : ListConfigs, whitelist : ListConfigs]
    /\ proc_input \in UNION {[1..n -> EntryPool] : n \in 1..MaxEntries}
    /\ proc_entries = proc_input
    /\ proc_pc = "blacklist"
    /\ HashIdle

\* Variant of ProcessEntries_Blacklist for sensitivity checks: the stage is passed over.
ProcessEntries_Blacklist_skipped ==
    /\ proc_pc = "blacklist"
    /\ proc_pc' = "whitelist"
    /\ UNCHANGED <<feed_config, proc_input, proc_entries, botVars, readVars, irc_event, hashVars, schedVars>>

\* Lines 159-165: the blacklist stage, run when the configured value is
\* truthy; the function returns when no entry is left.
ProcessEntries_Blacklist ==
    /\ proc_pc = "blacklist"
    /\ IF Truthy(ConfigGet(feed_config.blacklist))
       THEN LET kept == SelectSeq(proc_entries, LAMBDA entry : ~blacklisted_pattern(entry)) IN
            /\ proc_entries' = kept
            /\ proc_pc' = IF kept = <<>> THEN "returned" ELSE "whitelist"
       ELSE /\ proc_pc' = "whitelist"
            /\ UNCHANGED proc_entries
    /\ UNCHANGED <<feed_config, proc_input, botVars, readVars, irc_event, hashVars, schedVars>>

\* Lines 167-180: the whitelist stage, run when the configured value is
\* truthy.  The stages that follow do not remove entries by the lists.
ProcessEntries_Whitelist ==
    /\ proc_pc = "whitelist"
    /\ IF Truthy(ConfigGet(feed_config.whitelist))
       THEN proc_entries' = SelectSeq(proc_entries, LAMBDA entry : whitelisted_pattern(entry))
       ELSE UNCHANGED proc_entries
    /\ proc_pc' = "returned"
    /\ UNCHANGED <<feed_config, proc_input, botVars, readVars, irc_event, hashVars, schedVars>>

NextProc ==
    \/ ProcessEntries_Blacklist
    \/ ProcessEntries_Whitelist

SpecProc == InitProc /\ [][NextProc]_vars

(***************************************************************************)
(* Feed._process_entries, the stages that rewrite long_url and the last    *)
(* stage, _dedupe_entries (feed.py lines 182-201, 239-244, 288-291, and    *)
(* 72-88).  A long_url is the sequence of its parts: a scheme, names, and  *)
(* spaces raw or escaped.  The feed has no blacklist, whitelist or format, *)
(* and the stages on titles, which leave long_url alone, are passed over.  *)
(* FeedEntry is outside the source at hand: two entries are equal, and     *)
(* hash alike, when their long_url is equal.                               *)
(***************************************************************************)
MaxBatch == 3

LongUrls ==
    {<<scheme>> \o rest :
        scheme \in {"http://", "https://"},
        rest \in {<<"x">>, <<"y">>, <<"x", " ">>, <<"x", " ", "y">>, <<"x", "%20", "y">>}}

BatchPool == {[title |-> t, long_url |-> u] : t \in {"t1", "t2"}, u \in LongUrls}

\* The 'sub' of a feed: none, or a pattern and its replacement for the URL.
SubConfigs == {<<>>, [url |-> [pattern |-> "y", repl |-> "x"]]}

\* str.replace("http://", "https://", 1) on a URL that starts with "http://".
EnforceHttps(long_url) ==
    IF long_url # <<>> /\ Head(long_url) = "http://"
    THEN <<"https://">> \o Tail(long_url)
    ELSE long_url

\* re.sub(pattern, repl, value): every match is replaced.
re_sub(r, value) == [i \in 1..Len(value) |-> IF value[i] = r.pattern THEN r.repl ELSE value[i]]

\* str.strip(): the white space at both ends is removed.
RECURSIVE strip(_)
strip(value) ==
    IF value = <<>> THEN value
    ELSE IF Head(value) = " " THEN strip(Tail(value))
    ELSE IF value[Len(value)] = " " THEN strip(SubSeq(value, 1, Len(value) - 1))
    ELSE value

\* long_url.strip().replace(" ", "%20")
EscapeSpaces(long_url) ==
    LET stripped == strip(long_url) IN
    [i \in 1..Len(stripped) |-> IF stripped[i] = " " THEN "%20" ELSE stripped[i]]

\* FeedEntry.__eq__.
EntryEq(a, b) == a.long_url = b.long_url

\* Variant of _dedupe_entries for sensitivity checks: of equal entries the last is kept.
_dedupe_entries_keep_last(entries) ==
    LET idx == SelectSeq([i \in 1..Len(entries) |-> i],
                         LAMBDA i : \A j \in (i + 1)..Len(entries) : ~EntryEq(entries[j], entries[i]))
    IN  [k \in 1..Len(idx) |-> entries[idx[k]]]

\* Line 77, list(dict.fromkeys(entries)): the entries are made keys one after
\* the other, and an entry equal to a key is not made a key again.
_dedupe_entries(entries) ==
    LET RECURSIVE fromkeys(_, _)
        fromkeys(keys, rest) ==
            IF rest = <<>> THEN keys
            ELSE IF \E i \in 1..Len(keys) : EntryEq(keys[i], Head(rest))
                 THEN fromkeys(keys, Tail(rest))
                 ELSE fromkeys(Append(keys, Head(rest)), Tail(rest))
    IN  fromkeys(<<>>, entries)

InitStages ==
    /\ BotInit
    /\ SchedIdle
    /\ ReadIdle
    /\ irc_event = NoEvent
    /\ feed_config \in [blacklist : {NotConfigured}, whitelist : {NotConfigured},
                         https : BOOLEAN, sub : SubConfigs]
    /\ proc_input \in UNION {[1..n -> BatchPool] : n \in 1..MaxBatch}
    /\ proc_entries = proc_input
    /\ proc_pc = "https"
    /\ HashIdle

stagesFrame == <<feed_config, proc_input, botVars, readVars, irc_event, hashVars, schedVars>>

\* Lines 182-188: HTTPS is enforced when configured.
ProcessEntries_Https ==
    /\ proc_pc = "https"
    /\ proc_entries' =
            IF feed_config.https
            THEN [i \in 1..Len(proc_entries) |->
                    [proc_entries[i] EXCEPT !.long_url = EnforceHttps(@)]]
            ELSE proc_entries
    /\ proc_pc' = "sub"
    /\ UNCHANGED stagesFrame

\* Lines 190-200: the configured substitution of the URL.
ProcessEntries_Sub ==
    /\ proc_pc = "sub"
    /\ proc_entries' =
            IF feed_config.sub # <<>>
            THEN [i \in 1..Len(proc_entries) |->
                    [proc_entries[i] EXCEPT !.long_url = re_sub(feed_config.sub.url, @)]]
            ELSE proc_entries
    /\ proc_pc' = "escape"
    /\ UNCHANGED stagesFrame

\* Lines 239-244: spaces in URLs are escaped.
ProcessEntries_Escape ==
    /\ proc_pc = "escape"
    /\ proc_entries' =
            [i \in 1..Len(proc_entries) |->
                [proc_entries[i] EXCEPT !.long_url = EscapeSpaces(@)]]
    /\ proc_pc' = "dedupe"
    /\ UNCHANGED stagesFrame

\* Lines 288-291: the entries are deduplicated and returned.
ProcessEntries_Dedupe ==
    /\ proc_pc = "dedupe"
    /\ proc_entries' = _dedupe_entries(proc_entries)
    /\ proc_pc' = "returned"
    /\ UNCHANGED stagesFrame

NextStages ==
    \/ ProcessEntries_Https
    \/ ProcessEntries_Sub
    \/ ProcessEntries_Escape
    \/ ProcessEntries_Dedupe

SpecStages == InitStages /\ [][NextStages]_vars

(***************************************************************************)
(* Int8Hash.as_int (util/hashlib.py lines 6-25).  A digest is a sequence   *)
(* of BYTES bytes.  The source has BYTES = 8; the arithmetic is kept and   *)
(* the number of bytes is taken smaller, the integers of the checker       *)
(* being 32 bits wide.  shake_128 is some function of the seed: the        *)
(* initial state draws it from the functions to the digests of SomeBytes.  *)
(***************************************************************************)
BYTES == 2
BITS == BYTES * 8
BITS_MINUS1 == BITS - 1
MIN == -(2^BITS_MINUS1)
MAX == 2^BITS_MINUS1 - 1

Texts == {"", "a"}
SomeBytes == {0, 127, 128, 255}

\* str.encode: the UTF-8 bytes of a text.
encode(text) ==
    CASE text = "" -> <<>>
      [] text = "a" -> <<97>>

\* Variant of from_bytes_signed for sensitivity checks: the bytes are read as unsigned.
from_bytes_unsigned(bytes) ==
    LET RECURSIVE value(_)
        value(n) == IF n = 0 THEN 0 ELSE value(n - 1) * 256 + bytes[n]
    IN  value(Len(bytes))

\* int.from_bytes(bytes, byteorder='big', signed=True).
from_bytes_signed(bytes) ==
    LET RECURSIVE value(_)
        value(n) == IF n = 0 THEN 0 ELSE value(n - 1) * 256 + bytes[n]
        unsigned == value(Len(bytes))
    IN  IF bytes # <<>> /\ bytes[1] >= 128 THEN unsigned - 2^(8 * Len(bytes)) ELSE unsigned

InitHash ==
    /\ BotInit
    /\ SchedIdle
    /\ ReadIdle
    /\ irc_event = NoEvent
    /\ ProcIdle
    /\ shake_128 \in [{encode(text) : text \in Texts} -> [1..BYTES -> SomeBytes]]
    /\ as_int_cache = <<>>
    /\ hash_text = ""
    /\ hash_int = 0
    /\ hash_pc = "idle"

\* A call of as_int(text), lines 19-25: the cached result when there is one,
\* else the integer of the digest, checked by the assert and cached.
AsInt(text) ==
    LET seed == encode(text)
        hash_digest == shake_128[seed]
        result == from_bytes_signed(hash_digest) IN
    /\ hash_pc # "raised"
    /\ hash_text' = text
    /\ IF text \in DOMAIN as_int_cache
       THEN /\ hash_int' = as_int_cache[text]
            /\ hash_pc' = "returned"
            /\ UNCHANGED as_int_cache
       ELSE /\ hash_int' = result
            /\ IF MIN <= result /\ result <= MAX
               THEN /\ hash_pc' = "returned"
                    /\ as_int_cache' = DictSet(as_int_cache, text, result)
               ELSE /\ hash_pc' = "raised"
                    /\ UNCHANGED as_int_cache
    /\ UNCHANGED <<shake_128, botVars, readVars, irc_event, procVars, schedVars>>

NextHash == \E text \in Texts : AsInt(text)

SpecHash == InitHash /\ [][NextHash]_vars

(***************************************************************************)
(* The schedule of a reader (bot.py lines 128-144) on a clock of its own.  *)
(* An hour is TicksPerHour ticks of sched_now.  The waits for the join     *)
(* events and a poll (lines 146-176, with its barrier and its put) take    *)
(* any time; time.sleep returns at or after the time asked for.            *)
(***************************************************************************)
MaxTime == 12
TicksPerHour == 4
PERIOD_RANDOM_PERCENT == 25

\* Lines 128-130.
FeedPeriodAvg(period) == Max(PERIOD_HOURS_MIN, ConfigPeriod(period)) * TicksPerHour
feed_period_min == (feed_period_avg * (100 - PERIOD_RANDOM_PERCENT)) \div 100
feed_period_max == (feed_period_avg * (100 + PERIOD_RANDOM_PERCENT)) \div 100

\* Variant of NextQueryTime for sensitivity checks: the query time is not held to the present.
NextQueryTime_unclamped(now, feed_period) == query_time + feed_period

\* Line 140.
NextQueryTime(now, feed_period) == Max(now, query_time + feed_period)

InitSched ==
    /\ BotInit
    /\ ReadIdle
    /\ irc_event = NoEvent
    /\ ProcIdle
    /\ HashIdle
    /\ sched_now \in 0..1
    /\ sched_start = sched_now
    /\ feed_period_avg \in {FeedPeriodAvg(period) : period \in Periods}
    /\ query_time = sched_now - (feed_period_avg \div 2)
    /\ sched_wake = 0
    /\ sched_pc = "join_wait"

schedFrame == <<botVars, readVars, irc_event, procVars, hashVars, sched_start, feed_period_avg>>

\* A tick of the monotonic clock.
TickSched ==
    /\ sched_pc # "idle"
    /\ sched_now < MaxTime
    /\ sched_now' = sched_now + 1
    /\ UNCHANGED <<schedFrame, query_time, sched_wake, sched_pc>>

\* Lines 135-136: the join events are set and the waits return.
ReadFeed_Joined ==
    /\ sched_pc = "join_wait"
    /\ sched_pc' = "loop"
    /\ UNCHANGED <<schedFrame, sched_now, query_time, sched_wake>>

\* Lines 139-140: the period is drawn and the next query time computed.
ReadFeed_Schedule ==
    /\ sched_pc = "loop"
    /\ \E feed_period \in feed_period_min..feed_period_max :
          query_time' = NextQueryTime(sched_now, feed_period)
    /\ sched_pc' = "scheduled"
    /\ UNCHANGED <<schedFrame, sched_now, sched_wake>>

\* Lines 141-144: the sleep time is taken from a second reading of the
\* clock; the reader sleeps when it is not 0.
ReadFeed_SleepTime ==
    LET sleep_time == Max(0, query_time - sched_now) IN
    /\ sched_pc = "scheduled"
    /\ IF sleep_time # 0
       THEN /\ sched_wake' = sched_now + sleep_time
            /\ sched_pc' = "sleep"
       ELSE /\ sched_pc' = "poll"
            /\ UNCHANGED sched_wake
    /\ UNCHANGED <<schedFrame, sched_now, query_time>>

\* Line 144: time.sleep(sleep_time) returns, and the poll begins.
ReadFeed_Wake ==
    /\ sched_pc = "sleep"
    /\ sched_now >= sched_wake
    /\ sched_pc' = "poll"
    /\ UNCHANGED <<schedFrame, sched_now, query_time, sched_wake>>

\* Lines 146-181: the poll ends, by its put or by its alert, and the reader
\* is back at line 139.
ReadFeed_Polled ==
    /\ sched_pc = "poll"
    /\ sched_pc' = "loop"
    /\ UNCHANGED <<schedFrame, sched_now, query_time, sched_wake>>

NextSched ==
    \/ TickSched
    \/ ReadFeed_Joined
    \/ ReadFeed_Schedule
    \/ ReadFeed_SleepTime
    \/ ReadFeed_Wake
    \/ ReadFeed_Polled

SpecSched == InitSched /\ [][NextSched]_vars

(***************************************************************************)
(* Properties.  A messenger at "post" is about to send entry pidx of its   *)
(* batch and nothing can stop the send, so a property of every entry send  *)
(* is stated on the states in which a messenger is at "post".              *)
(***************************************************************************)
Posting == {"connect", "post", "pad"}
Row(c) == <<c, pfeed[c].name, postable[c][pidx[c]]>>
Rows(c, long_urls) == {<<c, pfeed[c].name, u>> : u \in Range(long_urls)}
OfChannel(rows, c) == {row \in rows : row[1] = c}

\* C1: an entry whose (channel, feed, long_url) is in the database is never
\* sent again: the entry a messenger is about to send is not in the posted
\* table, also when a second Feed object of the same feed was queued before
\* the first was recorded.
C1_NoRepost ==
    \A c \in Channels : ppc[c] = "post" => Row(c) \notin posted

\* A messenger is about to send an entry of a feed of which another entry is
\* already recorded (the second Feed object of the feed).
C1_Witness ==
    \E c \in Channels :
        /\ ppc[c] = "post"
        /\ \E u \in Range(pfeed[c].entries) : <<c, pfeed[c].name, u>> \in posted

C4_IdleAtGate ==
    \A c \in Channels :
        ppc[c] \in Posting => last_incoming_msg_time[c] >= MIN_CHANNEL_IDLE_TIME

\* C4, as the claim states it: at every entry send the time since the channel's
\* last incoming message is at least the minimum idle time.  (Stated for a
\* channel whose join handler has finished, so that the last timestamp is
\* that of a message.)
C4_IdleAtEverySend ==
    \A c \in Channels :
        ppc[c] = "post" /\ jpc[c] = "done" =>
            /\ c \in DOMAIN CHANNEL_LAST_INCOMING_MSG_TIMES
            /\ CHANNEL_LAST_INCOMING_MSG_TIMES[c] >= MIN_CHANNEL_IDLE_TIME

\* A messenger is about to send the second entry of a batch to a channel that a
\* message has come in to since the gate.
C4_Witness ==
    \E c \in Channels :
        /\ ppc[c] = "post" /\ pidx[c] = 2 /\ jpc[c] = "done"
        /\ CHANNEL_LAST_INCOMING_MSG_TIMES[c] < MIN_CHANNEL_IDLE_TIME
        /\ last_incoming_msg_time[c] >= MIN_CHANNEL_IDLE_TIME

\* C5: a messenger sleeping in the idle gate does not hold the send token, and
\* when the sleep returns it goes back to acquire the token and evaluate the
\* gate again, the token untouched by the return.
C5_SleepWithoutToken ==
    /\ [](\A c \in Channels : ppc[c] = "sleep" => outgoing_msg_lock # c)
    /\ [][\A c \in Channels :
            ppc[c] = "sleep" /\ ppc'[c] # "sleep" =>
                ppc'[c] = "acquire" /\ outgoing_msg_lock' = outgoing_msg_lock]_vars

\* One messenger sleeps in the idle gate while the other has just sent.
C5_Witness ==
    \E c, d \in Channels :
        /\ ppc[c] = "sleep" /\ psleep[c] > 0
        /\ ppc[d] = "pad" /\ last_sent = 0 /\ outgoing_msg_lock = d

\* C6, as amended: messengers and readers send nothing, entry or alert, before
\* the join events of the target channel and of the alerts channel are set;
\* the alert of the private-message handler is not held back.
C6_WorkersAfterJoin == sent_unjoined \subseteq {"handler"}

\* C6, as the claim states it: no message at all, alerts included, is sent
\* before the join events of its channel and of the alerts channel are set.
C6_NothingBeforeJoin == sent_unjoined = {}

\* The handler has alerted before the joins, and a messenger has sent an entry.
C6_Witness ==
    /\ "handler" \in sent_unjoined
    /\ \E c \in Channels : ppc[c] = "pad"

\* C7: after a failed send the batch is not recorded: while the failure is on
\* its way to the alert, and when the item is marked done, the database is as
\* it was when the feed was dequeued, so all of its unposted entries are still
\* unposted.
C7_FailedSendNotRecorded ==
    /\ [](\A c \in Channels :
            ppc[c] = "alert" /\ pexc[c] = "send" =>
                /\ unposted[c] # <<>>
                /\ Rows(c, unposted[c]) \cap posted = {}
                /\ SelectSeq(pfeed[c].entries,
                             LAMBDA u : ~ \E row \in posted :
                                 /\ row[1] = c
                                 /\ row[3] = u
                                 /\ (FeedConfig(<<c, pfeed[c].name>>).dedup = "feed"
                                        => row[2] = pfeed[c].name)) = unposted[c])
    /\ [][\A c \in Channels :
            pexc[c] = "send" \/ pexc'[c] = "send" =>
                OfChannel(posted', c) = OfChannel(posted, c)]_vars

\* The send of the second entry of a batch has failed.
C7_Witness ==
    \E c \in Channels : ppc[c] = "alert" /\ pexc[c] = "send" /\ pidx[c] = 2

\* C8: the database is written only by a messenger that has sent all postable
\* entries of its batch, and what it inserts are the long_urls of
\* unposted_entries: for a new feed with n unposted entries and cap c,
\* min(n, c) sends and n rows.
C8_RecordAfterPosting ==
    /\ [](\A c \in Channels :
            ppc[c] = "record" =>
                LET n == Len(unposted[c])
                    tag == FeedConfig(<<c, pfeed[c].name>>).new
                    new == ~ \E row \in posted : row[1] = c /\ row[2] = pfeed[c].name
                    cap == CASE tag = "none" -> 0 [] tag = "some" -> 1 [] OTHER -> n
                IN  /\ pidx[c] = Len(postable[c])
                    /\ Len(postable[c]) = IF new THEN Min(n, cap) ELSE n)
    /\ [][posted' # posted =>
            \E c \in Channels :
                /\ ppc[c] = "record" /\ ppc'[c] = "get"
                /\ posted' = posted \cup Rows(c, unposted[c])
                /\ Cardinality(posted' \ posted) = Len(unposted[c])]_vars

\* A new feed with two unposted entries and a cap of one: one entry sent, and
\* the batch is about to be recorded.
C8_Witness ==
    \E c \in Channels :
        /\ ppc[c] = "record" /\ pidx[c] = 1
        /\ Len(unposted[c]) = 2 /\ Len(postable[c]) = 1
        /\ OfChannel(posted, c) = {}

\* C9: a dequeued feed whose entries are all recorded under its dedup scope is
\* only ever at the recording step, with nothing postable, nothing sent and
\* the token not taken, and that step adds no row.
C9_AllPostedIsNoOp ==
    /\ [](\A c \in Channels :
            (/\ pfeed[c] # NoFeed
             /\ \A u \in Range(pfeed[c].entries) :
                    \E row \in posted :
                        /\ row[1] = c
                        /\ row[3] = u
                        /\ (FeedConfig(<<c, pfeed[c].name>>).dedup = "feed"
                               => row[2] = pfeed[c].name))
            => /\ ppc[c] = "record"
               /\ unposted[c] = <<>> /\ postable[c] = <<>> /\ pidx[c] = 0
               /\ outgoing_msg_lock # c)
    /\ [][\A c \in Channels :
            ppc[c] = "record" /\ unposted[c] = <<>> /\ ppc'[c] # "record" =>
                posted' = posted /\ ppc'[c] = "get"]_vars

\* A feed with entries, all of them recorded, has been dequeued.
C9_Witness ==
    \E c \in Channels :
        /\ ppc[c] = "record"
        /\ pfeed[c].entries # <<>>
        /\ unposted[c] = <<>>
        /\ Rows(c, pfeed[c].entries) \subseteq posted

GroupPeers(r) == {q \in Feeds : FeedConfig(q).group = FeedConfig(r).group}
Released(r) == rpc[r] = "barrier_wait" /\ FEED_GROUP_BARRIERS[FeedConfig(r).group].state # 0

Waiting(g) == {r \in Feeds : FeedConfig(r).group = g /\ rpc[r] = "barrier_wait"}
NamedBy(g) == {r \in Feeds : FeedConfig(r).group = g}

\* C11: the barrier of a group is a reusable rendezvous of N parties, N the
\* number of feeds of all channels that name the group: the arrival that
\* makes N releases the barrier and none before it, a reader leaves the
\* barrier (and puts its Feed) only with all N readers arrived in its
\* generation, and the barrier is back to filling once the last has left.
C11_BarrierRendezvous ==
    /\ [](\A g \in Groups :
            LET b == FEED_GROUP_BARRIERS[g]
                N == Cardinality(NamedBy(g)) IN
            /\ b.count = Cardinality(Waiting(g))
            /\ b.count <= N
            /\ b.state = 0 => b.count < N
            /\ b.state # 0 => b.count >= 1
            /\ b.state # 0 => \A r, q \in NamedBy(g) :
                                 rpc[r] = "barrier_wait" => rpass[q] = rpass[r])
    /\ [][\A g \in Groups :
            LET b == FEED_GROUP_BARRIERS[g]
                N == Cardinality(NamedBy(g)) IN
            /\ (b.state = 0 /\ b.count + 1 = N /\ b.count' = N) => b.state' # 0
            /\ \A r \in NamedBy(g) :
                  rpc[r] = "barrier_wait" /\ rpc'[r] # "barrier_wait" => b.state # 0]_vars

\* The barrier has released its second generation: both readers are at it for
\* the second time.
C11_Witness ==
    \E g \in Groups :
        /\ FEED_GROUP_BARRIERS[g].state # 0
        /\ FEED_GROUP_BARRIERS[g].count = Cardinality(NamedBy(g))
        /\ Cardinality(NamedBy(g)) = 2
        /\ \A r \in NamedBy(g) : rpass[r] = 2

\* C12: a channel's queue is first in, first out; the entry messages sent for
\* a dequeued Feed are its postable_entries from the first on, in list order
\* and each once; a batch that reaches the recording step has sent them all,
\* while a batch that an exception ends has sent only those before the
\* exception; entry messages are SECONDS_PER_MESSAGE apart.
C12_PostingOrder ==
    /\ [](\A c \in Channels :
            /\ Len(batch[c]) <= Len(postable[c])
            /\ batch[c] = Prefix(postable[c], Len(batch[c]))
            /\ ppc[c] = "record" => batch[c] = postable[c]
            /\ "entry" \notin unpaced)
    /\ [][\A c \in Channels :
            LET q == CHANNEL_QUEUES[c] IN
            CHANNEL_QUEUES'[c] # q =>
                \/ q # <<>> /\ CHANNEL_QUEUES'[c] = Tail(q) /\ pfeed'[c] = Head(q)
                \/ \E f \in Range(CHANNEL_QUEUES'[c]) : CHANNEL_QUEUES'[c] = Append(q, f)]_vars

\* C12 as stated: whenever the processing of a dequeued Feed has ended, all of
\* its postable_entries have been sent.
C12_EveryBatchWhole ==
    \A c \in Channels : ppc[c] \in {"record", "alert"} => batch[c] = postable[c]

\* A batch of two entries has been sent in list order while another Feed of
\* the channel waits in the queue.
C12_Witness ==
    \E c \in Channels :
        /\ ppc[c] = "record"
        /\ batch[c] = <<"u1", "u2">>
        /\ CHANNEL_QUEUES[c] # <<>>

HoldsFeed(r) == rpc[r] = "put_blocking" \/ Released(r)

\* C13: a reader that holds a Feed it has read (and passed the barrier with)
\* gives it up only by appending it to its channel's queue: when the queue is
\* full at put_nowait the reader alerts and keeps the Feed for the blocking
\* put, which returns only with the Feed enqueued; and a queue never holds
\* more than two Feeds per feed of its channel.
C13_ReadFeedNotDropped ==
    /\ [](\A c \in Channels : Len(CHANNEL_QUEUES[c]) <= 2 * Cardinality(ChannelFeeds(c)))
    /\ [](\A r \in Feeds : rpc[r] = "put_blocking" => r \in full_alerted /\ rfeed[r] # <<>>)
    /\ [][\A r \in Feeds :
            LET q == CHANNEL_QUEUES[r[1]] IN
            HoldsFeed(r) /\ rpc'[r] # rpc[r] =>
                \/ /\ Len(q) < 2 * Cardinality(ChannelFeeds(r[1]))
                   /\ CHANNEL_QUEUES'[r[1]] = Append(q, FeedObj(r, rfeed[r]))
                \/ /\ Len(q) = 2 * Cardinality(ChannelFeeds(r[1]))
                   /\ rpc[r] = "barrier_wait"
                   /\ rpc'[r] = "put_blocking"
                   /\ rfeed'[r] = rfeed[r]
                   /\ r \in full_alerted']_vars

\* A reader has found the queue full at its third put, has alerted and is in
\* the blocking put with its Feed, the queue still full.
C13_Witness ==
    \E r \in Feeds :
        /\ rpc[r] = "put_blocking"
        /\ rcycle[r] = MaxPollsFull
        /\ r \in full_alerted
        /\ Len(rfeed[r]) = 2
        /\ Len(CHANNEL_QUEUES[r[1]]) = 2 * Cardinality(ChannelFeeds(r[1]))

\* C14: an exception raised while a messenger processes a dequeued Feed takes
\* the messenger to the handler of line 116 without the lock; from there it
\* sends one alert, marks the queue item done and is back at channel_queue.get
\* with nothing of the Feed left; every dequeued Feed is marked done once.
C14_ExceptionHandled ==
    /\ [](\A c \in Channels :
            /\ unfinished_tasks[c] =
                    Len(CHANNEL_QUEUES[c]) + (IF ppc[c] = "get" THEN 0 ELSE 1)
            /\ ppc[c] = "alert" <=> pexc[c] # "none"
            /\ ppc[c] = "alert" => outgoing_msg_lock # c)
    /\ [][\A c \in Channels :
            ppc[c] = "alert" /\ ppc'[c] # "alert" =>
                /\ ppc'[c] = "get"
                /\ pexc'[c] = "none"
                /\ pfeed'[c] = NoFeed
                /\ alerts_sent' = alerts_sent + 1
                /\ unfinished_tasks'[c] = unfinished_tasks[c] - 1
                /\ outgoing_msg_lock' # c]_vars

\* A messenger is back at channel_queue.get with an empty queue and no task
\* unfinished after the one Feed of its channel was dequeued and an exception
\* kept it from being recorded; the exception was alerted.
C14_Witness ==
    \E r \in Feeds :
        /\ rpass[r] = 1 /\ rpc[r] \in {"loop", "done"}
        /\ ppc[r[1]] = "get"
        /\ CHANNEL_QUEUES[r[1]] = <<>>
        /\ unfinished_tasks[r[1]] = 0
        /\ OfChannel(posted, r[1]) = {}
        /\ alerts_sent = 1

\* C15: a poll in which reading the feed raises is alerted and leaves the
\* reader in its loop; a reader terminates only when 'once' is configured and
\* only in the step that enqueues its Feed, which with 'once' is the first
\* Feed it completes; having terminated it stays so.
C15_ReaderContinues ==
    /\ [](\A r \in Feeds :
            /\ rpc[r] = "done" => once /\ rpass[r] = 1
            /\ once => rpass[r] <= 1)
    /\ [][\A r \in Feeds :
            /\ rcycle'[r] # rcycle[r] /\ rpass'[r] = rpass[r] =>
                    /\ rpc'[r] = "loop"
                    /\ alerts_sent' = alerts_sent + 1
                    /\ CHANNEL_QUEUES' = CHANNEL_QUEUES
            /\ rpc[r] # "done" /\ rpc'[r] = "done" =>
                    CHANNEL_QUEUES'[r[1]] = Append(CHANNEL_QUEUES[r[1]], FeedObj(r, rfeed[r]))
            /\ rpc[r] = "done" => rpc'[r] = "done"]_vars

\* With 'once', a reader whose first poll failed has terminated after its
\* second, which succeeded.
C15_Witness ==
    \E r \in Feeds :
        once /\ rpc[r] = "done" /\ rcycle[r] = 2 /\ rpass[r] = 1 /\ alerts_sent >= 1

RECURSIVE EntriesOfUrls(_)
EntriesOfUrls(urls) ==
    IF urls = <<>> THEN <<>> ELSE ParserEntries(Head(urls)) \o EntriesOfUrls(Tail(urls))

\* C16 as stated: a poll in which the fetch of a URL fails goes on with the
\* pending URLs and ends by returning the entries of the URLs that were read.
C16_FailedUrlSkipped ==
    read_pc \in {"returned", "raised"} =>
        /\ read_pc = "returned"
        /\ urls_pending = <<>>
        /\ read_entries = EntriesOfUrls(urls_read)

\* What the poll does: it returns, with the entries of every URL it read, only
\* when no URL it came to failed; the first failure ends it.
C16_FailureEndsPoll ==
    /\ read_pc = "returned" =>
            /\ Range(urls_read) \cap urls_failing = {}
            /\ urls_pending = <<>>
            /\ read_entries = EntriesOfUrls(urls_read)
    /\ read_pc = "raised" => read_entries = EntriesOfUrls(urls_read)

\* The second URL of a feed failed after the first was read: the poll has
\* ended by the exception with entries read and a URL still pending.
C16_Witness ==
    /\ read_pc = "raised"
    /\ read_entries # <<>>
    /\ urls_pending # <<>>

\* C17 as stated: a JOIN of the bot or a PRIVMSG that names a configured
\* channel in any letter case has set the join event, respectively the
\* timestamp, that the workers of the configured channel wait on and read.
C17_AnySpelling ==
    LET configured == casefold(irc_event.channel) IN
    /\ irc_event.command = "JOIN" =>
            /\ ~irc_event.raised
            /\ CHANNEL_JOIN_EVENTS[configured]
    /\ irc_event.command \in {"JOIN", "PRIVMSG"} =>
            /\ configured \in DOMAIN CHANNEL_LAST_INCOMING_MSG_TIMES
            /\ CHANNEL_LAST_INCOMING_MSG_TIMES[configured] = 0

\* What the handlers do: a message in the configured spelling updates the
\* state of the configured channel; a JOIN in another spelling raises and
\* changes nothing, a PRIVMSG in another spelling stamps a key of its own.
C17_ConfiguredSpellingOnly ==
    LET name == irc_event.channel IN
    /\ irc_event.command = "JOIN" =>
            /\ irc_event.raised <=> name \notin AllChannels
            /\ ~irc_event.raised => CHANNEL_JOIN_EVENTS[name]
    /\ irc_event.command \in {"JOIN", "PRIVMSG"} /\ ~irc_event.raised =>
            /\ name \in DOMAIN CHANNEL_LAST_INCOMING_MSG_TIMES
            /\ CHANNEL_LAST_INCOMING_MSG_TIMES[name] = 0
    /\ \A ch \in AllChannels :
            CHANNEL_JOIN_EVENTS[ch] => ch \in DOMAIN CHANNEL_LAST_INCOMING_MSG_TIMES

\* The bot's JOIN to c1 came as C1: the handler raised and the join event of
\* c1, on which its messenger and readers wait, is not set.
C17_Witness ==
    /\ irc_event = [command |-> "JOIN", channel |-> "C1", raised |-> TRUE]
    /\ ~CHANNEL_JOIN_EVENTS["c1"]
    /\ jpc["c1"] = "done"

\* Does a list hold a pattern under some key.
HoldsPattern(list_config) ==
    \E key \in DOMAIN ConfigGet(list_config) : ConfigGet(list_config)[key] # <<>>

\* C18: with a blacklist and a whitelist configured, the entries left after
\* the two stages are, in their order, the entries that match no pattern of
\* the blacklist under any key and match a pattern of the whitelist under
\* some key; the blacklist stage runs first and an entry matching both
\* lists is dropped.
C18_BothLists ==
    /\ proc_pc = "whitelist" =>
            \A i \in 1..Len(proc_entries) : ~blacklisted_pattern(proc_entries[i])
    /\ (/\ proc_pc = "returned"
        /\ Truthy(ConfigGet(feed_config.blacklist))
        /\ Truthy(ConfigGet(feed_config.whitelist))) =>
            proc_entries =
                SelectSeq(proc_input,
                          LAMBDA entry : /\ ~matching_pattern(_patterns(feed_config.blacklist), entry)
                                         /\ matching_pattern(_patterns(feed_config.whitelist), entry))

\* Of two entries that both match the whitelist the one that matches the
\* blacklist too is dropped and the other is kept.
C18_Witness ==
    /\ proc_pc = "returned"
    /\ HoldsPattern(feed_config.blacklist)
    /\ HoldsPattern(feed_config.whitelist)
    /\ Len(proc_input) = 2
    /\ Len(proc_entries) = 1
    /\ \E i \in 1..2 :
          /\ matching_pattern(_patterns(feed_config.blacklist), proc_input[i])
          /\ matching_pattern(_patterns(feed_config.whitelist), proc_input[i])

\* The entries that the blacklist stage leaves to the whitelist stage.
AfterBlacklist ==
    IF Truthy(ConfigGet(feed_config.blacklist))
    THEN SelectSeq(proc_input, LAMBDA entry : ~blacklisted_pattern(entry))
    ELSE proc_input

\* C19 as stated: a whitelist that is configured and holds no pattern under
\* any key, be it a mapping without keys or keys with empty lists, keeps all
\* the entries that reach its stage.
C19_NoPatternKeepsAll ==
    (/\ proc_pc = "returned"
     /\ feed_config.whitelist.configured
     /\ ~HoldsPattern(feed_config.whitelist)) =>
        proc_entries = AfterBlacklist

\* What the stage does: a whitelist without keys keeps all entries, a
\* whitelist with a key keeps the entries that match one of its patterns,
\* which is none when it has no pattern.
C19_KeysWithoutPatternsDropAll ==
    proc_pc = "returned" /\ feed_config.whitelist.configured /\ AfterBlacklist # <<>> =>
        /\ ~Truthy(ConfigGet(feed_config.whitelist)) => proc_entries = AfterBlacklist
        /\ (/\ Truthy(ConfigGet(feed_config.whitelist))
            /\ ~HoldsPattern(feed_config.whitelist)) => proc_entries = <<>>

\* A whitelist with the key title and no pattern, no blacklist: both entries
\* of the feed have been dropped.
C19_Witness ==
    /\ proc_pc = "returned"
    /\ ~feed_config.blacklist.configured
    /\ feed_config.whitelist.configured
    /\ DOMAIN feed_config.whitelist.mapping = {"title"}
    /\ ~HoldsPattern(feed_config.whitelist)
    /\ Len(proc_input) = 2
    /\ proc_entries = <<>>

RECURSIVE Unsigned(_)
Unsigned(bytes) ==
    IF bytes = <<>> THEN 0 ELSE Unsigned(SubSeq(bytes, 1, Len(bytes) - 1)) * 256 + bytes[Len(bytes)]

\* C20: as_int returns the digest's BYTES bytes read as a big-endian two's
\* complement integer, that is the one integer between MIN and MAX that
\* differs from their unsigned value by a multiple of 2^BITS and is negative
\* exactly when the first byte has its top bit set; the assert never fails;
\* and a text once hashed has the same result at every later call.
C20_SignedDigest ==
    /\ [](hash_pc # "idle" =>
            LET hash_digest == shake_128[encode(hash_text)] IN
            /\ hash_pc = "returned"
            /\ MIN <= hash_int /\ hash_int <= MAX
            /\ (hash_int - Unsigned(hash_digest)) % (2^BITS) = 0
            /\ hash_int < 0 <=> hash_digest[1] >= 128
            /\ as_int_cache[hash_text] = hash_int)
    /\ [][\A text \in DOMAIN as_int_cache :
            text \in DOMAIN as_int_cache' /\ as_int_cache'[text] = as_int_cache[text]]_vars

\* A text whose digest is 80 00.. has been hashed to MIN, after another text
\* was hashed, and is hashed again from the cache.
C20_Witness ==
    /\ hash_pc = "returned"
    /\ hash_int = MIN
    /\ shake_128[encode(hash_text)][1] = 128
    /\ Cardinality(DOMAIN as_int_cache) = 2

NoDuplicates(s) == \A i, j \in 1..Len(s) : i # j => s[i] # s[j]
IsPrefix(s, t) == Len(s) <= Len(t) /\ SubSeq(t, 1, Len(s)) = s

\* C21: within one poll the URLs are fetched in the order in which they were
\* found, the seed URLs first: the URLs fetched followed by the URLs pending
\* are one list without repetition that begins with the seed URLs and only
\* grows at its end, and every fetch is of the oldest pending URL; so no URL
\* is fetched twice.  The poll ends, and when it returns no URL is pending
\* and num_urls_read is the number of distinct URLs fetched.
C21_Worklist ==
    /\ [](NoDuplicates(fetched \o urls_pending))
    /\ [](IsPrefix(feed_urls, fetched \o urls_pending))
    /\ [][IsPrefix(fetched \o urls_pending, fetched' \o urls_pending')]_vars
    /\ [][fetched' # fetched =>
            urls_pending # <<>> /\ fetched' = Append(fetched, Head(urls_pending))]_vars
    /\ [](read_pc = "returned" =>
            /\ urls_pending = <<>>
            /\ num_urls_read = Cardinality(Range(fetched))
            /\ num_urls_read = Len(fetched))
    /\ <>(read_pc # "loop")

\* The seeds c and b: c is read and names a, which waits behind b; a names c,
\* which is read already, and the poll returns with three URLs read.
C21_Witness ==
    /\ read_pc = "returned"
    /\ feed_urls = <<"c", "b">>
    /\ fetched = <<"c", "b", "a">>
    /\ num_urls_read = 3

\* Is a long_url absent from the database under the dedup scope of a feed.
Absent(rows, channel, feed, dedup, long_url) ==
    IF dedup = "channel"
    THEN \A row \in rows : ~(row[1] = channel /\ row[3] = long_url)
    ELSE \A row \in rows : ~(row[1] = channel /\ row[2] = feed /\ row[3] = long_url)

\* C22: for a dequeued Feed, unposted_entries is the sub-list, in order, of
\* the entries whose long_url is absent from the database under the feed's
\* dedup scope: as (channel, feed, url) with scope feed, as (channel, url)
\* of any feed with scope channel.  postable_entries is a prefix of it: its
\* first NEW_FEED_POSTS_MAX[new] elements when (channel, feed) has no row,
\* all of it otherwise.  With scope channel no entry is sent whose URL some
\* feed of the channel has recorded.
C22_UnpostedPostable ==
    \A c \in Channels :
        pfeed[c] # NoFeed /\ ppc[c] # "alert" =>
            LET name == pfeed[c].name
                cfg == instance_feeds[<<c, name>>]
                n == Len(unposted[c])
                cap == CASE cfg.new = "none" -> 0 [] cfg.new = "some" -> 1 [] OTHER -> n
                new == \A row \in posted : ~(row[1] = c /\ row[2] = name)
            IN  /\ unposted[c] =
                        SelectSeq(pfeed[c].entries,
                                  LAMBDA u : Absent(posted, c, name, cfg.dedup, u))
                /\ IsPrefix(postable[c], unposted[c])
                /\ Len(postable[c]) = IF new THEN Min(cap, n) ELSE n
                /\ (ppc[c] = "post" /\ cfg.dedup = "channel") =>
                        \A row \in posted : ~(row[1] = c /\ row[3] = postable[c][pidx[c]])

\* A feed of scope channel with the entries u2, u1, u3 is dequeued after the
\* other feed of its channel recorded u1: u2 and u3 are left, in that order.
C22_Witness ==
    \E c \in Channels :
        /\ pfeed[c] = FeedObj(<<c, "f2">>, <<"u2", "u1", "u3">>)
        /\ instance_feeds[<<c, "f2">>].dedup = "channel"
        /\ <<c, "f1", "u1">> \in posted
        /\ <<c, "f2", "u1">> \notin posted
        /\ unposted[c] = <<"u2", "u3">>
        /\ ppc[c] = "post" /\ pidx[c] = 2

\* The entries of a list that no earlier entry of it shares its long_url
\* with, in the order of the list.
FirstOccurrences(entries) ==
    LET idx == SelectSeq([i \in 1..Len(entries) |-> i],
                         LAMBDA i : \A j \in 1..(i - 1) : entries[j].long_url # entries[i].long_url)
    IN  [k \in 1..Len(idx) |-> entries[idx[k]]]

\* C23: the last stage of _process_entries returns a list in which no two
\* entries have the same long_url, long_url being what the HTTPS, substitute
\* and escape stages have made of it: the list returned is, in their order,
\* the entries that are the first of their long_url, and deduplicating it
\* again changes nothing.
C23_DedupeWithinBatch ==
    /\ [](proc_pc = "returned" =>
            /\ \A i, j \in 1..Len(proc_entries) :
                    i # j => proc_entries[i].long_url # proc_entries[j].long_url
            /\ _dedupe_entries(proc_entries) = proc_entries)
    /\ [][proc_pc = "dedupe" /\ proc_pc' # "dedupe" =>
            /\ proc_pc' = "returned"
            /\ proc_entries' = FirstOccurrences(proc_entries)]_vars

\* Three entries with the URLs http://x, https://x with a space after it, and
\* https://y: with HTTPS enforced the second has become a duplicate of the
\* first and is removed, and the third is kept behind the first.
C23_Witness ==
    /\ proc_pc = "returned"
    /\ feed_config.https /\ feed_config.sub = <<>>
    /\ proc_input = <<[title |-> "t1", long_url |-> <<"http://", "x">>],
                      [title |-> "t2", long_url |-> <<"https://", "x", " ">>],
                      [title |-> "t2", long_url |-> <<"https://", "y">>]>>
    /\ proc_entries = <<[title |-> "t1", long_url |-> <<"https://", "x">>],
                        [title |-> "t2", long_url |-> <<"https://", "y">>]>>

\* C24: the query time starts as start - period_avg/2 and each next one is
\* max(now, query_time + p) with period_min <= p <= period_max: so it is at
\* least period_min after the one before and not earlier than the moment it
\* is computed; a poll never begins before its query time, nor (the first
\* poll least of all) before start + period_min - period_avg/2.
C24_QueryTimes ==
    /\ [](sched_pc = "join_wait" => query_time = sched_start - (feed_period_avg \div 2))
    /\ [][query_time' # query_time =>
            /\ \E p \in feed_period_min..feed_period_max :
                    query_time' = Max(sched_now, query_time + p)
            /\ query_time' >= query_time + feed_period_min
            /\ query_time' >= sched_now]_vars
    /\ [](sched_pc = "poll" =>
            /\ sched_now >= query_time
            /\ sched_now >= sched_start + feed_period_min - (feed_period_avg \div 2))
    /\ [][sched_pc' = "poll" /\ sched_pc # "poll" => sched_now >= query_time]_vars

\* The first poll of a feed with the default period begins at the earliest
\* moment there is for it: the joins took no time and the least period was
\* drawn, so the reader slept from start to start + period_min - period_avg/2.
C24_Witness ==
    /\ sched_pc = "poll"
    /\ feed_period_avg = PERIOD_HOURS_DEFAULT * TicksPerHour
    /\ query_time = sched_start + feed_period_min - (feed_period_avg \div 2)
    /\ sched_wake = query_time
    /\ sched_now = query_time

\* C25 as stated: the idle gate waits for the minimum idle time of the Feed
\* being posted: a messenger sleeps in the gate only for a Feed whose
\* min_channel_idle_time is not 0, and for no longer than that time, so that
\* a Feed whose period is not above PERIOD_HOURS_MIN is posted without a wait
\* for the channel to fall silent.
C25_GateOfFeed ==
    \A c \in Channels :
        ppc[c] = "sleep" =>
            /\ min_channel_idle_time(pfeed[c]) # 0
            /\ psleep[c] <= min_channel_idle_time(pfeed[c])

\* What the gate does: it waits for config.MIN_CHANNEL_IDLE_TIME whatever the
\* Feed: no entry is sent to a channel whose timestamp, as read in the gate,
\* is younger than that, the Feed's own minimum idle time being 0 or not.
C25_GateOfConfig ==
    \A c \in Channels :
        /\ ppc[c] \in Posting => last_incoming_msg_time[c] >= MIN_CHANNEL_IDLE_TIME
        /\ ppc[c] = "sleep" => psleep[c] <= MIN_CHANNEL_IDLE_TIME

\* A Feed whose period is the minimum period, and whose own minimum idle
\* time is 0, was dequeued just after a message came in to its channel: the
\* messenger sleeps in the idle gate for MIN_CHANNEL_IDLE_TIME.
C25_Witness ==
    \E c \in Channels :
        /\ ppc[c] = "sleep"
        /\ FeedConfig(<<c, pfeed[c].name>>).period = PERIOD_HOURS_MIN
        /\ min_channel_idle_time(pfeed[c]) = 0
        /\ psleep[c] = MIN_CHANNEL_IDLE_TIME

\* C26: a dequeued Feed of which nothing is postable is only ever at the
\* recording step: nothing of it is sent, its messenger has not taken the
\* lock and sleeps in no gate.  When it has unposted entries (a new feed
\* with a cap of 0) that step inserts a row for each of them and sends
\* nothing, so the feed is no longer new; rows are never removed, and no
\* entry is sent whose row is in the database.
C26_CapZeroRecordedUnsent ==
    /\ [](\A c \in Channels :
            /\ (pfeed[c] # NoFeed /\ postable[c] = <<>>) =>
                    /\ ppc[c] = "record"
                    /\ batch[c] = <<>> /\ pidx[c] = 0 /\ psleep[c] = 0
                    /\ outgoing_msg_lock # c
            /\ ppc[c] = "post" => <<c, pfeed[c].name, postable[c][pidx[c]]>> \notin posted)
    /\ [][/\ posted \subseteq posted'
          /\ \A c \in Channels :
                (/\ ppc[c] = "record" /\ ppc'[c] # "record"
                 /\ postable[c] = <<>> /\ unposted[c] # <<>>) =>
                    /\ posted' = posted \cup Rows(c, unposted[c])
                    /\ ~is_new_feed(posted', c, pfeed[c].name)
                    /\ \A i \in 1..Len(unposted[c]) :
                          ~Absent(posted', c, pfeed[c].name,
                                  instance_feeds[<<c, pfeed[c].name>>].dedup, unposted[c][i])
                    /\ UNCHANGED <<sentVars, outgoing_msg_lock>>
                    /\ ppc'[c] = "get"]_vars

\* A Feed of a new feed whose cap is 0 was dequeued with three unposted
\* entries: nothing is postable, and its messenger is at the recording step
\* while the lock is free and another Feed waits in the queue.
C26_Witness ==
    \E c \in Channels :
        /\ ppc[c] = "record"
        /\ instance_feeds[<<c, pfeed[c].name>>].new = "none"
        /\ is_new_feed(posted, c, pfeed[c].name)
        /\ Len(unposted[c]) = 3 /\ postable[c] = <<>>
        /\ outgoing_msg_lock = "free"
        /\ CHANNEL_QUEUES[c] # <<>>

\* C27: the send lock is released only by the messenger that holds it, and
\* never while it is free, on every path through the messenger, the path
\* of an exception raised between the release of the idle gate and the next
\* acquire included; and a messenger blocked on its queue does not hold the
\* lock.  A step that takes the lock from its holder is a step of the
\* holder, and no release raises for the lock being unlocked.
C27_ReleasedByHolder ==
    [][\A c \in Channels :
            /\ ppc[c] = "get" => outgoing_msg_lock # c
            /\ pexc'[c] # "release"
            /\ outgoing_msg_lock = c /\ outgoing_msg_lock' # c =>
                    /\ ppc'[c] # ppc[c]
                    /\ \A d \in Channels \ {c} : ppc'[d] = ppc[d]]_vars

\* The messenger of one channel sends while the messenger of the other is
\* between the sends of its batch: the lock of the latter was released by
\* the finally clause of the former.
C27_Witness ==
    \E c, d \in Channels :
        /\ c # d
        /\ ppc[c] = "post"
        /\ ppc[d] = "pad"
        /\ outgoing_msg_lock = c

\* C28: whenever a messenger reads the timestamp of its channel's last
\* incoming message in the idle gate, the join handler has written it, in
\* every interleaving of the handler with the readers and the messengers;
\* no dequeued Feed is lost to a missing timestamp.  The step that leaves
\* line 82 finds the channel among the timestamps and raises no KeyError.
C28_TimestampInitialised ==
    [][\A c \in Channels :
            ppc[c] = "acquire" /\ ppc'[c] # "acquire" =>
                /\ c \in DOMAIN CHANNEL_LAST_INCOMING_MSG_TIMES
                /\ pexc'[c] # "key"]_vars

\* A messenger handles the KeyError of a dequeued Feed with unposted entries
\* while the join handler of its channel is between the setting of the
\* event and the writing of the timestamp.
C28_Witness ==
    \E c \in Channels :
        /\ ppc[c] = "alert"
        /\ pexc[c] = "key"
        /\ jpc[c] = "stamp"
        /\ CHANNEL_JOIN_EVENTS[c]
        /\ unposted[c] # <<>>

\* C29: errors are isolated per feed.  A feed whose every poll fails does not
\* keep any other feed, one of its own group included, from being enqueued
\* and posted: once a feed that is up has been polled, entries of it are
\* eventually posted to its channel and recorded.
C29_ErrorsIsolated ==
    \A r \in Feeds :
        (r \notin failing /\ rcycle[r] > 0) ~>
            (\E row \in posted : row[1] = r[1] /\ row[2] = r[2])

\* What holds of the code: the feeds of no group are isolated from the
\* failures of the other feeds.
C29_UngroupedIsolated ==
    \A r \in Feeds :
        (r \notin failing /\ rcycle[r] > 0 /\ FeedConfig(r).group = NoGroup) ~>
            (\E row \in posted : row[1] = r[1] /\ row[2] = r[2])

\* A feed that is up has been read and its reader waits at the barrier of
\* its group, while every poll of the other feed of the group has failed:
\* nothing is left that could release the barrier.
C29_Witness ==
    \E r, f \in Feeds :
        /\ r \notin failing
        /\ f \in failing
        /\ FeedConfig(r).group = FeedConfig(f).group
        /\ rpc[r] = "barrier_wait"
        /\ rfeed[r] # <<>>
        /\ rcycle[f] = MaxPolls
        /\ alerts_sent = MaxPolls
        /\ ~ \E row \in posted : row[1] = r[1]

\* Work is pending for the messengers: a Feed is in process, or queued for
\* a messenger that is past its wait for the join events.
Pending ==
    \E c \in Channels : ppc[c] # "get" \/ (CHANNEL_QUEUES[c] # <<>> /\ JoinEventsSet(c))

\* A thread that another waits for can take a step, or sleeps for a time
\* that passes: a messenger when work is pending, a reader at a barrier that
\* is open.
NoDeadlock ==
    /\ Pending =>
            \E c \in Channels : psleep[c] > 0 \/ ENABLED (Messenger(c) \/ MsgChannel_Alert(c))
    /\ \A g \in Groups :
            /\ FEED_GROUP_BARRIERS[g].count = Parties(g) => FEED_GROUP_BARRIERS[g].state = 1
            /\ FEED_GROUP_BARRIERS[g].state = 1 =>
                    \E r \in Feeds : FeedConfig(r).group = g /\ ENABLED ReadFeed_Put(r)

\* C30: readers, messengers, send lock, bounded queues and group barriers do
\* not deadlock, and under fair scheduling every Feed put on the queue of a
\* channel is eventually dequeued and marked done, given that the joins are
\* handled, the client gets connected, the channel becomes idle and the
\* calls return.  The unfinished tasks of a queue, the Feeds put and not
\* yet marked done, always come down to none.
C30_QueuedFeedsDone ==
    /\ []NoDeadlock
    /\ \A c \in Channels : (unfinished_tasks[c] > 0) ~> (unfinished_tasks[c] = 0)

\* Both readers have gone through all their polls, a Feed of each was put on
\* its queue more than once, and every Feed put was posted, recorded and
\* marked done.
C30_Witness ==
    /\ \A r \in Feeds : rcycle[r] = MaxPolls /\ rpc[r] = "loop" /\ rpass[r] = MaxPolls
    /\ \A c \in Channels :
            /\ ppc[c] = "get"
            /\ CHANNEL_QUEUES[c] = <<>>
            /\ unfinished_tasks[c] = 0
            /\ \E row \in posted : row[1] = c


====
